---- MODULE Spec2Model ----
(***************************************************************************)
(* Verification model of hip (sethmlarson/hip): the HTTP/1.1 transaction   *)
(* engine (src/hip/_async/http1.py) running over the blocking and the      *)
(* cooperative socket pump (src/hip/_backends/sync.py, trio.py), the       *)
(* connection manager (src/hip/_async/manager.py) and the redirect         *)
(* lifecycle of Session.request (src/hip/_async/sessions.py).              *)
(*                                                                         *)
(* Three specifications share this module:                                 *)
(*   Spec      one HTTP/1.1 transaction on one socket                      *)
(*   SpecPool  the manager's pool and the transactions it hands out        *)
(*   SpecSess  one Session.request call against a scripted server          *)
(***************************************************************************)
EXTENDS Integers, Sequences, FiniteSets, TLC

\* ------------------------------------------------------------------ bounds
MaxBody == 2          \* request-body chunks the iterator delivers
MaxRespData == 2      \* response Data events the server sends
ChunkLen == 2         \* bytes of one serialized request Data chunk
MaxTxns == 2          \* transactions running at a time on one manager
MaxSocks == 2         \* connections one manager opens
MaxRedirects == 2     \* largest integer passed as redirects=
FpLen == 2            \* length of a certificate fingerprint
MaxRawChunks == 2     \* chunks the raw body iterator of a Response delivers
MaxRawLen == 2        \* bytes in one raw body chunk
MaxChunkSize == 2     \* largest chunk_size passed to stream()
MaxRetries == 1       \* largest retry budget of a category
MaxSeconds == 2       \* largest number of seconds in Retry-After and the Retry settings
MaxBackoffCounter == 1 \* largest _backoff_counter a Retry is built with
MaxCodings == 2       \* codings listed in one Content-Encoding header
MaxData == 2          \* bytes of a body before it is encoded
MaxValues == 3        \* values kept under one header name
MaxTokens == 4        \* longest gzip input, in tokens
MaxStream == 9        \* bytes of an encoded text

\* ------------------------------------------------------------------ state
VARIABLES
    \* -- one transaction (http1.py) and its socket
    backend,            \* "sync" | "trio": which send_and_receive_for_a_while runs
    req_expect,         \* the request carries 'Expect: 100-continue'
    chunked,            \* the request is framed with Transfer-Encoding: chunked
    request_data,       \* what the request-body iterator has still to deliver
    pulled,             \* ghost: chunks the iterator has delivered, in order
    h11_out,            \* ghost: body events handed to h11.send (0 = EndOfMessage)
    wire,               \* ghost: body bytes written to the socket, in order
    srv_todo,           \* response events the peer has not yet put on the wire
    rx_seen,            \* ghost: events whose bytes were read from the socket
    h11_buf,            \* events in h11's receive buffer, not yet taken by next_event
    expect_100,         \* send_request: the 100-continue gate
    response,           \* send_request: a Response object has been constructed
    response_history,   \* send_request: status codes of the 1XX responses
    response_data,      \* receive_response_data: chunks parsed, not yet yielded
    request_ended,      \* receive_response_data
    response_ended,     \* receive_response_data
    yielded,            \* ghost: Data payloads yielded by receive_response_data
    parsed,             \* ghost: Data payloads parsed by process_response_data
    phase,              \* where the transaction is
    err,                \* the error that ended it ("" if none)
    pump,               \* locals of SyncSocket.send_and_receive_for_a_while
    trio,               \* locals and task positions of TrioSocket.send_and_receive_for_a_while
    \* -- the manager (manager.py)
    pool,               \* BackgroundManager.pool: connection key -> socket
    socks,              \* every socket ever opened: its key and liveness
    txns,               \* running transactions handed out by start_http_transaction
    \* -- one Session.request call (sessions.py)
    sess                \* locals of the Session method being run

txnVars == <<backend, req_expect, chunked, request_data, pulled, h11_out, wire,
             srv_todo, rx_seen, h11_buf, expect_100, response, response_history,
             response_data, request_ended, response_ended, yielded, parsed,
             phase, err, pump, trio>>
poolVars == <<pool, socks, txns>>
sessVars == <<sess>>
vars == <<txnVars, poolVars, sessVars>>

\* ------------------------------------------------------------- wire events
Info(code) == [t |-> "Info", v |-> code]
Resp == [t |-> "Resp", v |-> 200]
Data(d) == [t |-> "Data", v |-> d]
EOM == [t |-> "EOM", v |-> 0]

RECURSIVE DataEvents(_, _)
DataEvents(from, to) ==
    IF from > to THEN <<>> ELSE <<Data(from)>> \o DataEvents(from + 1, to)

\* The responses a well-formed peer can send for one request.
InfoPrefixes == {<<>>, <<Info(100)>>, <<Info(103)>>, <<Info(103), Info(100)>>}
ServerScripts ==
    {i \o <<Resp>> \o DataEvents(1, n) \o <<EOM>> : i \in InfoPrefixes, n \in 0..MaxRespData}

RECURSIVE Iota(_, _)
Iota(from, to) == IF from > to THEN <<>> ELSE <<from>> \o Iota(from + 1, to)

RECURSIVE Flatten(_)
Flatten(ss) == IF ss = <<>> THEN <<>> ELSE Head(ss) \o Flatten(Tail(ss))

\* ------------------------------------------------------------ h11 (client)
\* h11.send(h11.Data(data=chunk)): the bytes of the chunk.
DataBytes(c) == [k \in 1..ChunkLen |-> [c |-> c, k |-> k]]

\* h11.send(h11.EndOfMessage()): the terminating chunk under chunked framing,
\* b"" under Content-Length framing.
EOMBytes == IF chunked THEN <<[c |-> 0, k |-> 1]>> ELSE <<>>


\* produce_bytes of send_request without the test of the gate.
ProduceBytesSR_NoGate ==
    IF request_data = <<>>
    THEN [r |-> "none", out |-> <<>>, iter |-> request_data, pulled |-> pulled,
          h11_out |-> h11_out, request_ended |-> request_ended]
    ELSE [r |-> "bytes", out |-> DataBytes(Head(request_data)),
          iter |-> Tail(request_data), pulled |-> Append(pulled, Head(request_data)),
          h11_out |-> Append(h11_out, Head(request_data)),
          request_ended |-> request_ended]

\* produce_bytes of send_request: blocked while the 100-continue gate is set,
\* otherwise the next chunk of the iterator as Data bytes, or None when the
\* iterator is exhausted (the request is not ended here).
ProduceBytesSR ==
    IF expect_100
    THEN [r |-> "blocked", out |-> <<>>, iter |-> request_data, pulled |-> pulled,
          h11_out |-> h11_out, request_ended |-> request_ended]
    ELSE IF request_data = <<>>
    THEN [r |-> "none", out |-> <<>>, iter |-> request_data, pulled |-> pulled,
          h11_out |-> h11_out, request_ended |-> request_ended]
    ELSE [r |-> "bytes", out |-> DataBytes(Head(request_data)),
          iter |-> Tail(request_data), pulled |-> Append(pulled, Head(request_data)),
          h11_out |-> Append(h11_out, Head(request_data)),
          request_ended |-> request_ended]

\* produce_bytes of receive_response_data: the next chunk, or EndOfMessage
\* (once) when the iterator is exhausted, or None after the request has ended.
ProduceBytesGen ==
    IF request_ended
    THEN [r |-> "none", out |-> <<>>, iter |-> request_data, pulled |-> pulled,
          h11_out |-> h11_out, request_ended |-> TRUE]
    ELSE IF request_data = <<>>
    THEN [r |-> IF EOMBytes = <<>> THEN "none" ELSE "bytes", out |-> EOMBytes,
          iter |-> request_data, pulled |-> pulled,
          h11_out |-> Append(h11_out, 0), request_ended |-> TRUE]
    ELSE [r |-> "bytes", out |-> DataBytes(Head(request_data)),
          iter |-> Tail(request_data), pulled |-> Append(pulled, Head(request_data)),
          h11_out |-> Append(h11_out, Head(request_data)),
          request_ended |-> FALSE]

\* The produce callback the running pump was given.
ProduceBytes == IF phase = "send_request" THEN ProduceBytesSR ELSE ProduceBytesGen

\* consume_bytes of send_request, after h11.receive_data: takes events from
\* h11 until NEED_DATA.  A 100 clears the gate, every 1XX joins the history,
\* the first Response constructs the response and raises AbortSendAndReceive
\* (the events behind it stay in h11), anything else is a ValueError.
RECURSIVE ConsumeSR(_, _)
ConsumeSR(buf, st) ==
    IF buf = <<>>
    THEN [st EXCEPT !.h11_buf = <<>>, !.outcome = "ok"]
    ELSE LET event == Head(buf) IN
         IF event.t = "Info"
         THEN ConsumeSR(Tail(buf),
                  [st EXCEPT !.expect_100 = IF @ /\ event.v = 100 THEN FALSE ELSE @,
                             !.response_history = Append(@, event.v)])
         ELSE IF event.t = "Resp"
         THEN [st EXCEPT !.response = TRUE, !.h11_buf = Tail(buf), !.outcome = "abort"]
         ELSE [st EXCEPT !.h11_buf = Tail(buf), !.outcome = "ValueError"]

\* process_response_data: takes events from h11 until NEED_DATA, collecting
\* Data and noting EndOfMessage; raises AbortSendAndReceive iff response_data
\* is non-empty afterwards.
RECURSIVE ProcessResponseData(_, _)
ProcessResponseData(buf, st) ==
    IF buf = <<>>
    THEN [st EXCEPT !.h11_buf = <<>>,
                    !.outcome = IF st.response_data # <<>> THEN "abort" ELSE "ok"]
    ELSE LET event == Head(buf) IN
         IF event.t = "Data"
         THEN ProcessResponseData(Tail(buf),
                  [st EXCEPT !.response_data = Append(@, event.v),
                             !.parsed = Append(@, event.v)])
         ELSE IF event.t = "EOM"
         THEN ProcessResponseData(Tail(buf), [st EXCEPT !.response_ended = TRUE])
         ELSE [st EXCEPT !.h11_buf = Tail(buf), !.outcome = "ValueError"]

\* The parser-side state the consume callbacks read and write.
ParserState ==
    [expect_100 |-> expect_100, response |-> response,
     response_history |-> response_history, response_data |-> response_data,
     response_ended |-> response_ended, parsed |-> parsed,
     h11_buf |-> h11_buf, outcome |-> "ok"]

\* The consume callback the running pump was given, applied to the events
\* carried by one socket read (h11.receive_data appends them to the buffer).
ConsumeBytes(incoming) ==
    IF phase = "send_request"
    THEN ConsumeSR(h11_buf \o incoming, ParserState)
    ELSE ProcessResponseData(h11_buf \o incoming, ParserState)

\* get_response_data: hands over what was collected and empties the list.
get_response_data(st) == [data |-> st.response_data, response_data |-> <<>>]

\* --------------------------------------------------------------- the pumps
PumpPhases == {"send_request", "gen_loop"}

\* gate is a ghost of the running pump call: "blocked" after produce raised
\* BlockedUntilNextRead, "again" if it did so once more before any socket
\* read was delivered to consume, "delivered" after such a delivery until
\* the next call of produce, "open" otherwise.
GateAfterProduce(gate, r) ==
    IF r # "blocked" THEN "open" ELSE IF gate = "blocked" THEN "again" ELSE "blocked"
GateAfterDelivery(gate) == IF gate = "open" THEN "open" ELSE "delivered"

PumpIdle ==
    [pc |-> "idle", outgoing |-> <<>>, outgoing_finished |-> FALSE,
     waiting_for_read |-> FALSE, made_progress |-> FALSE,
     want_read |-> FALSE, want_write |-> FALSE, gate |-> "open"]
TrioIdle ==
    [sender |-> "idle", receiver |-> "idle", bytes_read |-> FALSE, outgoing |-> <<>>,
     gate |-> "open"]

\* Locals at entry of SyncSocket.send_and_receive_for_a_while.
PumpEntry == [PumpIdle EXCEPT !.pc = "produce"]
\* Locals at entry of TrioSocket.send_and_receive_for_a_while, both tasks started.
TrioEntry == [TrioIdle EXCEPT !.sender = "produce", !.receiver = "recv"]

\* Where control goes when the pump returns normally: send_request returns
\* its response; receive_response_data re-tests 'while not response_ended'.
AfterPump(rended) ==
    IF phase = "send_request" THEN "returned"
    ELSE IF rended THEN "gen_finish" ELSE "gen_loop"

EnterPhase(ph) ==
    /\ phase' = ph
    /\ pump' = IF ph \in PumpPhases /\ backend = "sync" THEN PumpEntry ELSE PumpIdle
    /\ trio' = IF ph \in PumpPhases /\ backend = "trio" THEN TrioEntry ELSE TrioIdle

ApplyProduce(p) ==
    /\ request_data' = p.iter
    /\ pulled' = p.pulled
    /\ h11_out' = p.h11_out
    /\ request_ended' = p.request_ended

ApplyConsume(c) ==
    /\ expect_100' = c.expect_100
    /\ response' = c.response
    /\ response_history' = c.response_history
    /\ response_data' = c.response_data
    /\ response_ended' = c.response_ended
    /\ parsed' = c.parsed
    /\ h11_buf' = c.h11_buf

producerVars == <<request_data, pulled, h11_out, request_ended>>
parserVars == <<expect_100, response, response_history, response_data,
                response_ended, parsed, h11_buf>>
configVars == <<backend, req_expect, chunked>>

\* The socket reads the peer's bytes allow now: the next k response events
\* (k = 0: bytes that complete no event yet).
Reads == {SubSeq(srv_todo, 1, k) : k \in 0..Len(srv_todo)}


\* A pump that lets AbortSendAndReceive propagate like any other exception.
PumpResult_AbortRaises(outcome) == IF outcome = "ok" THEN "continue" ELSE "raise"

\* What the caller of send_and_receive_for_a_while sees when consume ends
\* with the given outcome: both pumps catch AbortSendAndReceive themselves
\* and return normally; any other exception propagates.
PumpResult(outcome) ==
    IF outcome = "abort" THEN "return"
    ELSE IF outcome = "ok" THEN "continue"
    ELSE "raise"

\* The 'except AbortSendAndReceive: yield get_response_data()' around the pump
\* call in receive_response_data: it yields only if the pump lets the signal
\* propagate.
YieldAfterPump(result, c) ==
    IF result = "raise_abort"
    THEN [yielded |-> yielded \o get_response_data(c).data,
          response_data |-> get_response_data(c).response_data]
    ELSE [yielded |-> yielded, response_data |-> c.response_data]

\* One socket read has delivered 'incoming' to the running pump's consume.
Deliver(incoming, c) ==
    /\ srv_todo' = SubSeq(srv_todo, Len(incoming) + 1, Len(srv_todo))
    /\ rx_seen' = rx_seen \o incoming
    /\ expect_100' = c.expect_100
    /\ response' = c.response
    /\ response_history' = c.response_history
    /\ response_ended' = c.response_ended
    /\ parsed' = c.parsed
    /\ h11_buf' = c.h11_buf
    /\ LET y == YieldAfterPump(PumpResult(c.outcome), c) IN
         /\ yielded' = y.yielded
         /\ response_data' = y.response_data

Fail(e) ==
    /\ phase' = "error"
    /\ err' = e
    /\ pump' = PumpIdle
    /\ trio' = TrioIdle

\* ---- SyncSocket.send_and_receive_for_a_while, one turn of 'while True'
\* A turn that goes from produce straight to the send.
SyncProduce_SendFirst ==
    /\ phase \in PumpPhases /\ backend = "sync" /\ pump.pc = "produce"
    /\ IF ~pump.outgoing_finished /\ pump.outgoing = <<>> /\ ~pump.waiting_for_read
       THEN LET p == ProduceBytes IN
            /\ ApplyProduce(p)
            /\ pump' = [pump EXCEPT !.pc = "send",
                                    !.waiting_for_read = (p.r = "blocked"),
                                    !.outgoing_finished = (p.r = "none"),
                                    !.outgoing = IF p.r = "bytes" THEN p.out ELSE <<>>,
                                    !.made_progress = FALSE,
                                    !.want_read = FALSE, !.want_write = FALSE,
                                    !.gate = GateAfterProduce(@, p.r)]
       ELSE /\ UNCHANGED producerVars
            /\ pump' = [pump EXCEPT !.pc = "send", !.made_progress = FALSE,
                                    !.want_read = FALSE, !.want_write = FALSE]
    /\ UNCHANGED <<configVars, parserVars, wire, srv_todo, rx_seen, yielded,
                   phase, err, trio, poolVars, sessVars>>

\* Top of the turn: call produce unless finished, holding unsent bytes, or
\* waiting for a read.
SyncProduce ==
    /\ phase \in PumpPhases /\ backend = "sync" /\ pump.pc = "produce"
    /\ IF ~pump.outgoing_finished /\ pump.outgoing = <<>> /\ ~pump.waiting_for_read
       THEN LET p == ProduceBytes IN
            /\ ApplyProduce(p)
            /\ pump' = [pump EXCEPT !.pc = "recv",
                                    !.waiting_for_read = (p.r = "blocked"),
                                    !.outgoing_finished = (p.r = "none"),
                                    !.outgoing = IF p.r = "bytes" THEN p.out ELSE <<>>,
                                    !.made_progress = FALSE,
                                    !.want_read = FALSE, !.want_write = FALSE,
                                    !.gate = GateAfterProduce(@, p.r)]
       ELSE /\ UNCHANGED producerVars
            /\ pump' = [pump EXCEPT !.pc = "recv", !.made_progress = FALSE,
                                    !.want_read = FALSE, !.want_write = FALSE]
    /\ UNCHANGED <<configVars, parserVars, wire, srv_todo, rx_seen, yielded,
                   phase, err, trio, poolVars, sessVars>>

\* recv before send: EWOULDBLOCK sets want_read; received bytes clear
\* waiting_for_read and go to consume, which may end the pump.
SyncRecv ==
    /\ phase \in PumpPhases /\ backend = "sync" /\ pump.pc = "recv"
    /\ \/ /\ pump' = [pump EXCEPT !.pc = "send", !.want_read = TRUE]
          /\ UNCHANGED <<parserVars, srv_todo, rx_seen, yielded, phase, err, trio>>
       \/ \E incoming \in Reads :
            /\ srv_todo # <<>>
            /\ LET c == ConsumeBytes(incoming)
                   result == PumpResult(c.outcome) IN
               /\ Deliver(incoming, c)
               /\ IF result = "continue"
                  THEN /\ pump' = [pump EXCEPT !.pc = "send", !.made_progress = TRUE,
                                               !.waiting_for_read = FALSE,
                                               !.gate = GateAfterDelivery(@)]
                       /\ UNCHANGED <<phase, err, trio>>
                  ELSE IF result = "return"
                  THEN EnterPhase(AfterPump(c.response_ended)) /\ UNCHANGED err
                  ELSE Fail(c.outcome)
    /\ UNCHANGED <<configVars, producerVars, wire, poolVars, sessVars>>

\* send: only with unsent bytes and not waiting for a read; the socket takes
\* some of them, or EWOULDBLOCK sets want_write.
SyncSend ==
    /\ phase \in PumpPhases /\ backend = "sync" /\ pump.pc = "send"
    /\ IF pump.outgoing # <<>> /\ ~pump.outgoing_finished /\ ~pump.waiting_for_read
       THEN \/ \E sent \in 1..Len(pump.outgoing) :
                 /\ wire' = wire \o SubSeq(pump.outgoing, 1, sent)
                 /\ pump' = [pump EXCEPT !.pc = "wait", !.made_progress = TRUE,
                                         !.outgoing = SubSeq(@, sent + 1, Len(@))]
            \/ /\ pump' = [pump EXCEPT !.pc = "wait", !.want_write = TRUE]
               /\ UNCHANGED wire
       ELSE /\ pump' = [pump EXCEPT !.pc = "wait"]
            /\ UNCHANGED wire
    /\ UNCHANGED <<configVars, producerVars, parserVars, srv_todo, rx_seen, yielded,
                   phase, err, trio, poolVars, sessVars>>

\* The socket can become ready for what the blocked turn waits on.
SocketReady == (pump.want_read /\ srv_todo # <<>>) \/ pump.want_write

\* End of the turn: a turn without progress blocks in _wait until the socket
\* is ready.
SyncWait ==
    /\ phase \in PumpPhases /\ backend = "sync" /\ pump.pc = "wait"
    /\ pump.made_progress \/ SocketReady
    /\ pump' = [pump EXCEPT !.pc = "produce"]
    /\ UNCHANGED <<configVars, producerVars, parserVars, wire, srv_todo, rx_seen,
                   yielded, phase, err, trio, poolVars, sessVars>>

\* _wait ran into read_timeout: socket.timeout, rewritten to ReadTimeout.
SyncTimeout ==
    /\ phase \in PumpPhases /\ backend = "sync" /\ pump.pc = "wait"
    /\ ~pump.made_progress
    /\ Fail("ReadTimeout")
    /\ UNCHANGED <<configVars, producerVars, parserVars, wire, srv_todo, rx_seen,
                   yielded, poolVars, sessVars>>

\* ---- TrioSocket.send_and_receive_for_a_while: sender and receiver tasks
\* sender: one call of produce.
TrioSenderProduce ==
    /\ phase \in PumpPhases /\ backend = "trio" /\ trio.sender = "produce"
    /\ LET p == ProduceBytes IN
       /\ ApplyProduce(p)
       /\ trio' = IF p.r = "blocked"
                  THEN [trio EXCEPT !.sender = "wait", !.bytes_read = FALSE,
                                    !.gate = GateAfterProduce(@, p.r)]
                  ELSE IF p.r = "none"
                  THEN [trio EXCEPT !.sender = "done", !.gate = GateAfterProduce(@, p.r)]
                  ELSE [trio EXCEPT !.sender = "send", !.outgoing = p.out,
                                    !.gate = GateAfterProduce(@, p.r)]
    /\ UNCHANGED <<configVars, parserVars, wire, srv_todo, rx_seen, yielded,
                   phase, err, pump, poolVars, sessVars>>

\* A sender that does not wait for the event.
TrioSenderWake_NoWait ==
    /\ phase \in PumpPhases /\ backend = "trio" /\ trio.sender = "wait"
    /\ trio' = [trio EXCEPT !.sender = "produce"]
    /\ UNCHANGED <<configVars, producerVars, parserVars, wire, srv_todo, rx_seen,
                   yielded, phase, err, pump, poolVars, sessVars>>

\* sender: bytes_read.wait() returns once the receiver has set the event.
TrioSenderWake ==
    /\ phase \in PumpPhases /\ backend = "trio" /\ trio.sender = "wait"
    /\ trio.bytes_read
    /\ trio' = [trio EXCEPT !.sender = "produce"]
    /\ UNCHANGED <<configVars, producerVars, parserVars, wire, srv_todo, rx_seen,
                   yielded, phase, err, pump, poolVars, sessVars>>

\* sender: stream.send_all writes the chunk, possibly in several pieces.
TrioSenderSend ==
    /\ phase \in PumpPhases /\ backend = "trio" /\ trio.sender = "send"
    /\ \E sent \in 1..Len(trio.outgoing) :
         /\ wire' = wire \o SubSeq(trio.outgoing, 1, sent)
         /\ trio' = [trio EXCEPT !.outgoing = SubSeq(@, sent + 1, Len(@)),
                                 !.sender = IF sent = Len(trio.outgoing)
                                            THEN "produce" ELSE "send"]
    /\ UNCHANGED <<configVars, producerVars, parserVars, srv_todo, rx_seen, yielded,
                   phase, err, pump, poolVars, sessVars>>

\* receiver: receive_some returned bytes: set bytes_read, call consume; an
\* exception of consume cancels the sender and leaves the nursery.
TrioReceiverRecv ==
    /\ phase \in PumpPhases /\ backend = "trio" /\ trio.receiver = "recv"
    /\ srv_todo # <<>>
    /\ \E incoming \in Reads :
         LET c == ConsumeBytes(incoming)
             result == PumpResult(c.outcome) IN
         /\ Deliver(incoming, c)
         /\ IF result = "continue"
            THEN /\ trio' = [trio EXCEPT !.bytes_read = TRUE,
                                         !.gate = GateAfterDelivery(@)]
                 /\ UNCHANGED <<phase, err, pump>>
            ELSE IF result = "return"
            THEN EnterPhase(AfterPump(c.response_ended)) /\ UNCHANGED err
            ELSE Fail(c.outcome)
    /\ UNCHANGED <<configVars, producerVars, wire, poolVars, sessVars>>

\* receiver: move_on_after(read_timeout) expired, incoming is None: break.
TrioReceiverTimeout ==
    /\ phase \in PumpPhases /\ backend = "trio" /\ trio.receiver = "recv"
    /\ trio' = [trio EXCEPT !.receiver = "done"]
    /\ UNCHANGED <<configVars, producerVars, parserVars, wire, srv_todo, rx_seen,
                   yielded, phase, err, pump, poolVars, sessVars>>

\* Both tasks have finished: the nursery block ends, the pump returns.
TrioNurseryExit ==
    /\ phase \in PumpPhases /\ backend = "trio"
    /\ trio.sender = "done" /\ trio.receiver = "done"
    /\ EnterPhase(AfterPump(response_ended))
    /\ UNCHANGED <<configVars, producerVars, parserVars, wire, srv_todo, rx_seen,
                   yielded, err, poolVars, sessVars>>

\* ---- receive_response_data, driven by the consumer of the body
\* First step of the generator: parse what send_request left in h11; yield
\* it if there was data; then enter 'while not response_ended'.
GenStart ==
    /\ phase = "returned" /\ response
    /\ LET c == ProcessResponseData(h11_buf, ParserState) IN
       /\ response_ended' = c.response_ended
       /\ parsed' = c.parsed
       /\ h11_buf' = c.h11_buf
       /\ IF c.outcome = "abort"
          THEN /\ yielded' = yielded \o get_response_data(c).data
               /\ response_data' = get_response_data(c).response_data
          ELSE /\ yielded' = yielded
               /\ response_data' = c.response_data
       /\ IF c.outcome = "ValueError"
          THEN Fail(c.outcome)
          ELSE /\ EnterPhase(IF c.response_ended THEN "gen_finish" ELSE "gen_loop")
               /\ UNCHANGED err
    /\ UNCHANGED <<configVars, producerVars, wire, srv_todo, rx_seen, expect_100,
                   response, response_history, poolVars, sessVars>>

\* 'while not request_ended': finish the upload with send_all.
GenFinishUpload ==
    /\ phase = "gen_finish" /\ ~request_ended
    /\ LET p == ProduceBytesGen IN
       /\ ApplyProduce(p)
       /\ wire' = wire \o p.out
    /\ UNCHANGED <<configVars, parserVars, srv_todo, rx_seen, yielded, phase, err,
                   pump, trio, poolVars, sessVars>>

\* Both directions have ended: close() and the end of the iteration.
GenClose ==
    /\ phase = "gen_finish" /\ request_ended
    /\ phase' = "done"
    /\ UNCHANGED <<configVars, producerVars, parserVars, wire, srv_todo, rx_seen,
                   yielded, err, pump, trio, poolVars, sessVars>>

\* ---- the transaction specification
PoolIdle == /\ pool = <<>> /\ socks = <<>> /\ txns = <<>>
SessIdle == sess = [pc |-> "idle"]

\* send_request has serialized and flushed the request head (send_all) and
\* enters the pump.
Init ==
    /\ backend \in {"sync", "trio"}
    /\ req_expect \in BOOLEAN
    /\ chunked \in BOOLEAN
    /\ request_data \in {Iota(1, n) : n \in 0..MaxBody}
    /\ srv_todo \in ServerScripts
    /\ pulled = <<>> /\ h11_out = <<>> /\ wire = <<>> /\ rx_seen = <<>>
    /\ h11_buf = <<>>
    /\ expect_100 = req_expect
    /\ response = FALSE
    /\ response_history = <<>>
    /\ response_data = <<>>
    /\ request_ended = FALSE /\ response_ended = FALSE
    /\ yielded = <<>> /\ parsed = <<>>
    /\ phase = "send_request" /\ err = ""
    /\ pump = IF backend = "sync" THEN PumpEntry ELSE PumpIdle
    /\ trio = IF backend = "trio" THEN TrioEntry ELSE TrioIdle
    /\ PoolIdle /\ SessIdle

Next ==
    \/ SyncProduce \/ SyncRecv \/ SyncSend \/ SyncWait \/ SyncTimeout
    \/ TrioSenderProduce \/ TrioSenderWake \/ TrioSenderSend
    \/ TrioReceiverRecv \/ TrioReceiverTimeout \/ TrioNurseryExit
    \/ GenStart \/ GenFinishUpload \/ GenClose

Spec == Init /\ [][Next]_vars

\* Neither pump stops while it can take a step: the blocking pump is one
\* loop, and trio runs a task that is ready.
SpecLive == Spec /\ WF_vars(Next)


\* ------------------------------------------------- transaction properties
Received(e) == \E i \in 1..Len(rx_seen) : rx_seen[i] = e

\* C1: for a request with 'Expect: 100-continue', request-body data has been
\* taken from the iterator, handed to h11 or written to the socket only if a
\* 100 (Continue) or a final response has been read from the socket before,
\* in every interleaving of both pumps.
C1_NoDataBeforeContinue ==
    (req_expect /\ (pulled # <<>> \/ h11_out # <<>> \/ wire # <<>>))
        => (Received(Info(100)) \/ Received(Resp))

\* The gate was set, a 100 arrived, and body bytes went out while
\* send_request was still waiting for the final response.
C1_Witness ==
    /\ req_expect /\ phase = "send_request"
    /\ Received(Info(100)) /\ ~Received(Resp)
    /\ wire # <<>>

\* C2: once the body iteration has ended, the payloads yielded are exactly
\* the payloads of the Data events parsed, in order.
C2_YieldedEqualsParsed ==
    phase = "done" => yielded = parsed

RECURSIVE BytesOf(_)
BytesOf(cs) == IF cs = <<>> THEN <<>> ELSE DataBytes(Head(cs)) \o BytesOf(Tail(cs))

\* C3: once the body iteration has ended, the socket has received the bytes
\* of every chunk the iterator delivered, whole, once and in order, then the
\* end of the message, and h11 was given exactly one EndOfMessage, last.
C3_UploadWholeAndOnce ==
    phase = "done" =>
        /\ wire = BytesOf(pulled) \o EOMBytes
        /\ h11_out = pulled \o <<0>>

\* C4: from the moment the response EndOfMessage is parsed the iteration is
\* out of the pump (finishing the upload or ended) and has raised no error.
C4_EndsAtEndOfMessage ==
    response_ended => phase \in {"gen_finish", "done"}


\* ---------------------------------------------------- connection manager
\* TLSVersion members after resolve(), in their order.
TLSv1 == 0
TLSv1_1 == 1
TLSv1_2 == 2
TLSv1_3 == 3
NoTLS == -1           \* socket.tls_version() of a socket that is not TLS-wrapped

Origin(scheme, host, port) == [scheme |-> scheme, host |-> host, port |-> port]

\* A pin is the hex fingerprint of the leaf certificate; FpLen is its length.
NoPin == <<>>
Pinned == [i \in 1..FpLen |-> 1]

\* ConnectionConfig as Session.request builds it.
ConnectionConfig(origin, versions, pinned_cert, min, max) ==
    [origin |-> origin, server_hostname |-> "None", http_versions |-> versions,
     ca_certs |-> "certifi", pinned_cert |-> pinned_cert,
     tls_min_version |-> min, tls_max_version |-> max]

\* The configs the modelled sessions ask for.
Configs ==
    {ConnectionConfig(Origin("http", "a", 80), {"HTTP/1.1"}, NoPin, TLSv1_2, TLSv1_3),
     ConnectionConfig(Origin("http", "a", 80), {"HTTP/2"}, NoPin, TLSv1_2, TLSv1_3),
     ConnectionConfig(Origin("https", "a", 443), {"HTTP/1.1"}, NoPin, TLSv1_2, TLSv1_3),
     ConnectionConfig(Origin("https", "a", 443), {"HTTP/1.1"}, NoPin, TLSv1_2, TLSv1_2),
     ConnectionConfig(Origin("https", "a", 443), {"HTTP/1.1"}, Pinned, TLSv1_3, TLSv1_3)}

match_IgnoresPin(conn_config, conn_key) ==
    /\ conn_config.origin = conn_key.origin
    /\ conn_key.http_version \in conn_config.http_versions
    /\ \/ conn_key.tls_version = NoTLS
       \/ /\ conn_config.tls_min_version <= conn_key.tls_version
          /\ conn_key.tls_version <= conn_config.tls_max_version
\* ConnectionConfig.match
match(conn_config, conn_key) ==
    /\ conn_config.origin = conn_key.origin
    /\ conn_config.server_hostname = conn_key.server_hostname
    /\ conn_config.ca_certs = conn_key.ca_certs
    /\ conn_config.pinned_cert = conn_key.pinned_cert
    /\ conn_key.http_version \in conn_config.http_versions
    /\ \/ conn_key.tls_version = NoTLS
       \/ /\ conn_config.tls_min_version <= conn_key.tls_version
          /\ conn_key.tls_version <= conn_config.tls_max_version

\* The key _new_socket records for a connection opened for conn_config.
ConnectionKey(conn_config, http_version, tls_version) ==
    [origin |-> conn_config.origin, server_hostname |-> conn_config.server_hostname,
     http_version |-> http_version, ca_certs |-> conn_config.ca_certs,
     pinned_cert |-> conn_config.pinned_cert, tls_version |-> tls_version]

\* A probe that only notices a close by the peer.
is_connected_PeerOnly(sock) == ~socks[sock].peer_closed

\* AsyncSocket.is_connected: the socket is writable, i.e. neither closed
\* locally nor by the peer.
is_connected(sock) == ~socks[sock].closed /\ ~socks[sock].peer_closed

\* The loop of _get_socket over self.pool.items(), from entry i on: the
\* matching entries found disconnected (to_pop) and the first connected match
\* (0 if none).
RECURSIVE ScanPool(_, _, _)
ScanPool_NoProbe(conn_config, i, to_pop) ==
    IF \E j \in 1..Len(pool) : match(conn_config, pool[j].key)
    THEN [socket |-> pool[CHOOSE j \in 1..Len(pool) : match(conn_config, pool[j].key)].sock,
          to_pop |-> {}]
    ELSE [socket |-> 0, to_pop |-> {}]
ScanPool(conn_config, i, to_pop) ==
    IF i > Len(pool)
    THEN [socket |-> 0, to_pop |-> to_pop]
    ELSE IF match(conn_config, pool[i].key)
    THEN IF ~is_connected(pool[i].sock)
         THEN ScanPool(conn_config, i + 1, to_pop \cup {pool[i].key})
         ELSE [socket |-> pool[i].sock, to_pop |-> to_pop]
    ELSE ScanPool(conn_config, i + 1, to_pop)

\* 'for conn_key in to_pop: self.pool.pop(conn_key)'
RECURSIVE PoolWithout(_, _)
PoolWithout(p, to_pop) ==
    IF p = <<>> THEN <<>>
    ELSE IF Head(p).key \in to_pop THEN PoolWithout(Tail(p), to_pop)
    ELSE <<Head(p)>> \o PoolWithout(Tail(p), to_pop)

\* 'self.pool[conn_key] = socket': replaces the value in place or appends.
PoolPut(p, conn_key, sock) ==
    IF \E i \in 1..Len(p) : p[i].key = conn_key
    THEN [i \in 1..Len(p) |-> IF p[i].key = conn_key
                               THEN [key |-> conn_key, sock |-> sock] ELSE p[i]]
    ELSE Append(p, [key |-> conn_key, sock |-> sock])

\* The TLS versions a handshake for conn_config can negotiate.
Negotiable(conn_config) ==
    IF conn_config.origin.scheme = "https"
    THEN conn_config.tls_min_version..conn_config.tls_max_version
    ELSE {NoTLS}

\* 'socket.http_version() or "HTTP/1.1"': the ALPN result of a TLS socket
\* (one of the offered protocols, or none, which reads as HTTP/1.1), and
\* HTTP/1.1 for a socket without TLS.
NegotiableHTTP(conn_config) ==
    IF conn_config.origin.scheme = "https"
    THEN conn_config.http_versions \cup {"HTTP/1.1"}
    ELSE {"HTTP/1.1"}

\* The leaf certificates a peer can present to a pinning client, by
\* fingerprint: the pinned one and those differing from it in one bit;
\* without a pin the certificate is not looked at here.
Flipped(fingerprint, bit) ==
    [i \in 1..FpLen |-> IF i = bit THEN 1 - fingerprint[i] ELSE fingerprint[i]]
Presentable(conn_config) ==
    IF conn_config.origin.scheme = "https" /\ conn_config.pinned_cert # NoPin
    THEN {conn_config.pinned_cert}
            \cup {Flipped(conn_config.pinned_cert, bit) : bit \in 1..FpLen}
    ELSE {NoPin}

verify_first_only(actual_fingerprint, expected_fingerprint) ==
    actual_fingerprint[1] = expected_fingerprint[1]
\* verify_peercert_fingerprint: hmac.compare_digest of the two fingerprints;
\* FALSE stands for raising CertificateFingerprintMismatch.
verify_peercert_fingerprint(actual_fingerprint, expected_fingerprint) ==
    \A i \in 1..FpLen : actual_fingerprint[i] = expected_fingerprint[i]

\* HTTP11Transaction(socket)
NewTransaction(sock) == [sock |-> sock, st |-> "bound"]

\* The running transactions are kept ordered by socket and progress: which
\* of two equal transactions is which does not matter.
Before(t1, t2) ==
    \/ t1.sock < t2.sock
    \/ t1.sock = t2.sock /\ t1.st = "bound" /\ t2.st = "body"
RECURSIVE Insert(_, _)
Insert(running, txn) ==
    IF running = <<>> THEN <<txn>>
    ELSE IF Before(Head(running), txn)
    THEN <<Head(running)>> \o Insert(Tail(running), txn)
    ELSE <<txn>> \o running

\* start_http_transaction: _get_socket, _new_socket on a miss, and a new
\* HTTP11Transaction bound to the socket.  _new_socket verifies the pin
\* before it stores the socket; on a mismatch it raises and nothing is
\* stored or bound.
StartTransaction(conn_config) ==
    /\ Len(txns) < MaxTxns
    /\ LET scan == ScanPool(conn_config, 1, {})
           kept == PoolWithout(pool, scan.to_pop) IN
       IF scan.socket # 0
       THEN /\ pool' = kept
            /\ txns' = Insert(txns, NewTransaction(scan.socket))
            /\ UNCHANGED socks
       ELSE /\ Len(socks) < MaxSocks
            /\ \E tls_version \in Negotiable(conn_config),
                  http_version \in NegotiableHTTP(conn_config),
                  peercert \in Presentable(conn_config) :
                 LET conn_key == ConnectionKey(conn_config, http_version, tls_version)
                     sock == Len(socks) + 1
                     verified ==
                        \/ conn_config.origin.scheme # "https"
                        \/ conn_config.pinned_cert = NoPin
                        \/ verify_peercert_fingerprint(peercert, conn_config.pinned_cert)
                 IN
                 /\ socks' = Append(socks, [key |-> conn_key, config |-> conn_config,
                                            closed |-> FALSE, peer_closed |-> FALSE,
                                            differs |-> peercert # conn_config.pinned_cert,
                                            mismatch |-> ~verified,
                                            failed |-> FALSE])
                 /\ IF verified
                    THEN /\ pool' = PoolPut(kept, conn_key, sock)
                         /\ txns' = Insert(txns, NewTransaction(sock))
                    ELSE /\ pool' = kept
                         /\ UNCHANGED txns
    /\ UNCHANGED <<txnVars, sessVars>>

PoolStart == \E conn_config \in Configs : StartTransaction(conn_config)

\* The transactions still running once transaction t has ended.
Ended(t) == SubSeq(txns, 1, t - 1) \o SubSeq(txns, t + 1, Len(txns))

\* transaction.send_request returned its Response: the body is still to be
\* read from the transaction's socket.
PoolSendRequest ==
    \E t \in 1..Len(txns) :
        /\ txns[t].st = "bound"
        /\ txns' = Insert(Ended(t), [txns[t] EXCEPT !.st = "body"])
        /\ UNCHANGED <<pool, socks, txnVars, sessVars>>

\* The body was drained (Response.close or a finished stream):
\* receive_response_data ends with HTTP11Transaction.close, which readies
\* h11 for the next cycle or, if h11 refuses, closes the socket.
PoolDrain ==
    \E t \in 1..Len(txns), reusable \in BOOLEAN :
        /\ txns[t].st = "body"
        /\ txns' = Ended(t)
        /\ socks' = IF reusable THEN socks
                    ELSE [socks EXCEPT ![txns[t].sock].closed = TRUE]
        /\ UNCHANGED <<pool, txnVars, sessVars>>

\* A transaction ends abnormally: send_request or the body iteration raises
\* (an error, a read timeout) or the call is cancelled.  The exception
\* leaves through Session.request; no handler touches the socket or the
\* pool.  The socket remembers it (failed).
PoolAbort ==
    \E t \in 1..Len(txns) :
        /\ txns' = Ended(t)
        /\ socks' = [socks EXCEPT ![txns[t].sock].failed = TRUE]
        /\ UNCHANGED <<pool, txnVars, sessVars>>

\* The peer closes a connection the client still holds.
PoolPeerClose ==
    \E sock \in 1..Len(socks) :
        /\ ~socks[sock].peer_closed /\ ~socks[sock].closed
        /\ \/ \E i \in 1..Len(pool) : pool[i].sock = sock
           \/ \E t \in 1..Len(txns) : txns[t].sock = sock
        /\ socks' = [socks EXCEPT ![sock].peer_closed = TRUE]
        /\ UNCHANGED <<pool, txns, txnVars, sessVars>>

\* No transaction runs in the manager and session specifications.
TxnIdle ==
    /\ backend = "sync" /\ req_expect = FALSE /\ chunked = FALSE
    /\ request_data = <<>> /\ srv_todo = <<>>
    /\ pulled = <<>> /\ h11_out = <<>> /\ wire = <<>> /\ rx_seen = <<>>
    /\ h11_buf = <<>> /\ expect_100 = FALSE /\ response = FALSE
    /\ response_history = <<>> /\ response_data = <<>>
    /\ request_ended = FALSE /\ response_ended = FALSE
    /\ yielded = <<>> /\ parsed = <<>>
    /\ phase = "idle" /\ err = ""
    /\ pump = PumpIdle /\ trio = TrioIdle

InitPool == TxnIdle /\ SessIdle /\ PoolIdle

NextPool == PoolStart \/ PoolSendRequest \/ PoolDrain \/ PoolAbort \/ PoolPeerClose

SpecPool == InitPool /\ [][NextPool]_vars

\* C5: no socket is bound to two transactions whose cycles are both
\* unfinished.
C5_OneTransactionPerSocket ==
    \A t1, t2 \in 1..Len(txns) :
        txns[t1].sock = txns[t2].sock => t1 = t2

RunningIn(running, sock) ==
    Cardinality({t \in 1..Len(running) : running[t].sock = sock})
InPool(p, sock) == \E i \in 1..Len(p) : p[i].sock = sock

\* C14: a start_http_transaction call hands out no pooled socket that was
\* disconnected when probed; every matching entry it probed and found
\* disconnected is gone from the pool afterwards; and with no connected
\* match it opens a new connection.
C14_DeadSocketsNotHandedOut ==
    [][\A conn_config \in Configs :
         StartTransaction(conn_config) =>
            /\ \A sock \in 1..Len(socks) :
                  RunningIn(txns', sock) > RunningIn(txns, sock) => is_connected(sock)
            /\ \A i \in 1..Len(pool) :
                  (/\ match(conn_config, pool[i].key)
                   /\ ~is_connected(pool[i].sock)
                   /\ \A j \in 1..(i - 1) :
                         ~(match(conn_config, pool[j].key) /\ is_connected(pool[j].sock)))
                  => ~InPool(pool', pool[i].sock)
            /\ (\A i \in 1..Len(pool) :
                  match(conn_config, pool[i].key) => ~is_connected(pool[i].sock))
                  => Len(socks') = Len(socks) + 1]_vars

\* The first connection was closed by the peer while pooled; a later call
\* for the same key dropped it and runs on a second connection.
C14_Witness ==
    /\ Len(socks) = 2
    /\ socks[1].peer_closed /\ ~socks[1].closed /\ ~InPool(pool, 1)
    /\ socks[2].key = socks[1].key /\ InPool(pool, 2)
    /\ RunningIn(txns, 2) = 1

\* A connection an earlier request with conn_config was sent on, whose
\* transactions all ended normally and which is still usable.
KeptAlive(sock, conn_config) ==
    /\ socks[sock].config = conn_config
    /\ ~socks[sock].mismatch /\ ~socks[sock].failed
    /\ ~socks[sock].closed /\ ~socks[sock].peer_closed
    /\ RunningIn(txns, sock) = 0

\* C15: when every earlier response has been drained and a connection
\* opened for the same config is still usable, the next request with that
\* config opens no connection and runs on that socket.
C15_KeepAliveReuse ==
    [][\A conn_config \in Configs :
         (/\ StartTransaction(conn_config)
          /\ txns = <<>>
          /\ \E sock \in 1..Len(socks) : KeptAlive(sock, conn_config))
         => /\ Len(socks') = Len(socks)
            /\ \E sock \in 1..Len(socks) :
                  KeptAlive(sock, conn_config) /\ RunningIn(txns', sock) = 1]_vars

C17_FailedSocketDropped ==
    /\ [](\A sock \in 1..Len(socks) : socks[sock].failed => ~InPool(pool, sock))
    /\ [][\A sock \in 1..Len(socks) :
            socks[sock].failed => RunningIn(txns', sock) <= RunningIn(txns, sock)]_vars


SameEndpoint(conn_config, conn_key) ==
    /\ conn_config.origin = conn_key.origin
    /\ conn_config.server_hostname = conn_key.server_hostname
    /\ conn_config.ca_certs = conn_key.ca_certs
    /\ conn_config.pinned_cert = conn_key.pinned_cert
    /\ conn_key.http_version \in conn_config.http_versions
WithinTLSRange(conn_config, conn_key) ==
    /\ conn_config.tls_min_version <= conn_key.tls_version
    /\ conn_key.tls_version <= conn_config.tls_max_version

\* C18 as stated: match is true iff origin, server_hostname, ca_certs and
\* pinned_cert are equal, the key's http_version is among the config's and
\* the key's tls_version lies within the config's range.
C18_MatchIffWithinRange ==
    \A conn_config \in Configs, sock \in 1..Len(socks) :
        match(conn_config, socks[sock].key)
            <=> (/\ SameEndpoint(conn_config, socks[sock].key)
                 /\ WithinTLSRange(conn_config, socks[sock].key))

\* C18 amended: match is true iff those fields are equal, the key's
\* http_version is among the config's, and the key has no tls_version (a
\* connection without TLS) or one within the config's range; and a pooled
\* socket is handed out only for a config of which that holds.
C18_MatchIffNoTLSOrWithinRange ==
    /\ [](\A conn_config \in Configs, sock \in 1..Len(socks) :
            match(conn_config, socks[sock].key)
                <=> (/\ SameEndpoint(conn_config, socks[sock].key)
                     /\ \/ socks[sock].key.tls_version = NoTLS
                        \/ WithinTLSRange(conn_config, socks[sock].key)))
    /\ [][\A conn_config \in Configs :
            StartTransaction(conn_config) =>
               \A sock \in 1..Len(socks) :
                  RunningIn(txns', sock) > RunningIn(txns, sock) =>
                     /\ SameEndpoint(conn_config, socks[sock].key)
                     /\ \/ socks[sock].key.tls_version = NoTLS
                        \/ WithinTLSRange(conn_config, socks[sock].key)]_vars

\* A connection without TLS was taken from the pool again: a transaction
\* runs on it after an earlier one on it had ended.
C18_Witness ==
    \E sock \in 1..Len(socks) :
        /\ socks[sock].key.tls_version = NoTLS
        /\ socks[sock].failed /\ RunningIn(txns, sock) = 1
        /\ match(socks[sock].config, socks[sock].key)

REDIRECT_STATUSES == {301, 302, 303, 307, 308}

Hosts == {"a", "b"}
Paths == {"/", "/x"}
URLs == [host : Hosts, path : Paths]
NoHost == "-"
NoLocation == [host |-> NoHost, path |-> "-"]
\* Values of a Location header: absolute URLs and path-only references.
Locations == [host : Hosts \cup {NoHost}, path : Paths]

\* URL.join: reference resolution of a Location against the current URL.
join(url, location) ==
    IF location.host = NoHost
    THEN [host |-> url.host, path |-> location.path]
    ELSE [host |-> location.host, path |-> location.path]

\* The values of the redirects= parameter: None, a bool (val 1 = True,
\* 0 = False) or an int.
NoneVal == [tag |-> "none", val |-> 0]
BoolVal(b) == [tag |-> "bool", val |-> IF b THEN 1 ELSE 0]
IntVal(n) == [tag |-> "int", val |-> n]
RedirectsArgs == {NoneVal, BoolVal(TRUE), BoolVal(FALSE)} \cup {IntVal(n) : n \in 0..MaxRedirects}

\* A test of the parameter that lets False through.
IsNotFalse_Always(redirects) == redirects = redirects
\* 'redirects is not False'
IsNotFalse(redirects) == redirects # BoolVal(FALSE)
\* 'isinstance(redirects, int)': bool is a subclass of int.
IsInstanceInt(redirects) == redirects.tag \in {"bool", "int"}
\* 'redirects == 0' under isinstance(redirects, int), off by one.
BudgetExhausted_OffByOne(redirects) == IsInstanceInt(redirects) /\ redirects.val <= 1
\* 'redirects == 0' under isinstance(redirects, int)
BudgetExhausted(redirects) == IsInstanceInt(redirects) /\ redirects.val = 0
\* 'redirects -= 1' under isinstance(redirects, int): the result is an int.
Decrement(redirects) ==
    IF IsInstanceInt(redirects) THEN IntVal(redirects.val - 1) ELSE redirects

\* Response.is_redirect
is_redirect(resp) == resp.status_code \in REDIRECT_STATUSES /\ resp.location # NoLocation

NoRequest == [id |-> 0, url |-> NoLocation]

\* What the peer can answer to one request: 1XX responses, then a final
\* response, with or without Location.
InfoRuns == {<<>>, <<103>>}
FinalAnswers ==
    {[status_code |-> 200, location |-> NoLocation],
     [status_code |-> 302, location |-> NoLocation]}
    \cup [status_code : {302, 307}, location : Locations]

\* The 1XX entries consume_bytes of send_request collects (no request).
InfoEntries(codes, n) ==
    [i \in 1..Len(codes) |->
        [kind |-> "info", n |-> n + i, status_code |-> codes[i],
         location |-> NoLocation, request |-> NoRequest]]

\* The snapshot appended for a followed redirect, with the request of the
\* next hop in place of the one that elicited it.
Snapshot_NextRequest(resp, next) ==
    [kind |-> "redirect", n |-> resp.n, status_code |-> resp.status_code,
     location |-> resp.location, request |-> next]
\* The snapshot appended for a followed redirect: BaseResponse(status_code,
\* http_version, headers.copy(), request=resp.request).
Snapshot(resp, next) ==
    [kind |-> "redirect", n |-> resp.n, status_code |-> resp.status_code,
     location |-> resp.location, request |-> resp.request]

\* The except clause of the second try block: the error gets the current
\* request and, having no response yet, the response with the history so far.
Raise(type, hist) ==
    [sess EXCEPT !.pc = "raised",
                 !.response_history = hist,
                 !.error = [type |-> type, request |-> sess.request,
                            response |-> [sess.resp EXCEPT !.history = hist]]]

\* Top of 'while True' up to the return of send_request: the request goes
\* out and the peer's answer comes back as resp, its 1XX responses in
\* resp.history.
SessSend ==
    /\ sess.pc = "send"
    /\ \E codes \in InfoRuns, answer \in FinalAnswers :
         LET n == Len(sess.arrivals)
             infos == InfoEntries(codes, n)
             resp == [kind |-> "final", n |-> n + Len(codes) + 1,
                      status_code |-> answer.status_code,
                      location |-> answer.location,
                      request |-> sess.request, history |-> infos]
         IN sess' = [sess EXCEPT
                 !.pc = "got",
                 !.resp = resp,
                 !.sent = Append(@, sess.request),
                 !.arrivals = @ \o infos \o <<[resp EXCEPT !.history = <<>>]>>]
    /\ UNCHANGED <<txnVars, poolVars>>

\* The second try block without the test of visited_urls.
SessHandle_NoLoopTest ==
    /\ sess.pc = "got"
    /\ LET resp == sess.resp
           extended == sess.response_history \o resp.history
       IN
       IF IsNotFalse(sess.redirects) /\ is_redirect(resp)
       THEN IF BudgetExhausted(sess.redirects)
            THEN sess' = Raise("TooManyRedirects", extended)
            ELSE LET url == join(sess.request.url, resp.location)
                     redirect_request == [id |-> sess.request.id + 1, url |-> url]
                     history == Append(extended, Snapshot(resp, redirect_request))
                 IN
                 sess' = [sess EXCEPT
                             !.pc = "send",
                             !.redirects = Decrement(sess.redirects),
                             !.response_history = history,
                             !.visited_urls = @ \cup {url},
                             !.request = redirect_request,
                             !.followed = @ + 1]
       ELSE sess' = [sess EXCEPT
                        !.pc = "returned",
                        !.response_history = extended,
                        !.result = [resp EXCEPT !.history = extended]]
    /\ UNCHANGED <<txnVars, poolVars>>

\* The second try block: history bookkeeping, then either the redirect is
\* followed (budget, snapshot, drain, prepare_redirect, loop detection) or
\* the response is returned.
SessHandle ==
    /\ sess.pc = "got"
    /\ LET resp == sess.resp
           extended == sess.response_history \o resp.history
       IN
       IF IsNotFalse(sess.redirects) /\ is_redirect(resp)
       THEN IF BudgetExhausted(sess.redirects)
            THEN sess' = Raise("TooManyRedirects", extended)
            ELSE LET url == join(sess.request.url, resp.location)
                     redirect_request == [id |-> sess.request.id + 1, url |-> url]
                     history == Append(extended, Snapshot(resp, redirect_request))
                 IN
                 IF url \in sess.visited_urls
                 THEN sess' = [Raise("RedirectLoopDetected", history)
                                  EXCEPT !.redirects = Decrement(sess.redirects)]
                 ELSE sess' = [sess EXCEPT
                                  !.pc = "send",
                                  !.redirects = Decrement(sess.redirects),
                                  !.response_history = history,
                                  !.visited_urls = @ \cup {url},
                                  !.request = redirect_request,
                                  !.followed = @ + 1]
       ELSE sess' = [sess EXCEPT
                        !.pc = "returned",
                        !.response_history = extended,
                        !.result = [resp EXCEPT !.history = extended]]
    /\ UNCHANGED <<txnVars, poolVars>>

InitialURL == [host |-> "a", path |-> "/"]
NoResponse ==
    [kind |-> "none", n |-> 0, status_code |-> 0, location |-> NoLocation,
     request |-> NoRequest, history |-> <<>>]

\* Session.request has prepared the request and enters the lifecycle loop.
InitSess ==
    /\ TxnIdle /\ PoolIdle
    /\ \E redirects \in RedirectsArgs :
         sess = [pc |-> "send",
                 redirects_arg |-> redirects,
                 redirects |-> redirects,
                 request |-> [id |-> 1, url |-> InitialURL],
                 visited_urls |-> {InitialURL},
                 response_history |-> <<>>,
                 resp |-> NoResponse,
                 result |-> NoResponse,
                 error |-> [type |-> "", request |-> NoRequest, response |-> NoResponse],
                 sent |-> <<>>,
                 arrivals |-> <<>>,
                 followed |-> 0]

NextSess == SessSend \/ SessHandle

SpecSess == InitSess /\ [][NextSess]_vars

\* The peer answers every request and the loop goes on while it can.
SpecSessLive == SpecSess /\ WF_vars(NextSess)


\* ------------------------------------------------------ session properties
Last(seq) == seq[Len(seq)]
RedirectsSeen ==
    Cardinality({i \in 1..Len(sess.arrivals) :
                    sess.arrivals[i].kind = "final" /\ is_redirect(sess.arrivals[i])})
InfosSeen == Cardinality({i \in 1..Len(sess.arrivals) : sess.arrivals[i].kind = "info"})
RedirectEntries(history) ==
    Cardinality({i \in 1..Len(history) : history[i].kind = "redirect"})
Raised(type) == sess.pc = "raised" /\ sess.error.type = type

\* The budget the caller asked for still allows a redirect: an integer N
\* allows N, None and True set no limit.
BudgetLeft ==
    IF sess.redirects_arg.tag = "int"
    THEN sess.followed < sess.redirects_arg.val
    ELSE TRUE

\* C6: with redirects enabled and budget left, a redirect response whose
\* target (current URL joined with Location) is the initial URL or a URL
\* already requested makes the call raise RedirectLoopDetected at that
\* response; and no URL is requested twice in one call.
C6_LoopDetectedAtOnce ==
    /\ [][(/\ sess.pc = "got"
           /\ sess.redirects_arg # BoolVal(FALSE)
           /\ is_redirect(sess.resp)
           /\ join(sess.request.url, sess.resp.location) \in sess.visited_urls
           /\ BudgetLeft)
          => Raised("RedirectLoopDetected")']_vars
    /\ [](\A i, j \in 1..Len(sess.sent) :
            sess.sent[i].url = sess.sent[j].url => i = j)

\* C7: with redirects=N, an integer: a returned response is not a redirect,
\* at most N redirects were answered and its history holds one redirect
\* entry for each; TooManyRedirects is raised exactly at the (N+1)-th
\* redirect response, N redirects followed, the error carrying that response
\* with N redirect entries in its history (N entries when the server sent no
\* 1XX); and unless a loop is detected, a non-redirect answer is returned.
C7_IntegerBudget ==
    LET N == sess.redirects_arg.val IN
    (sess.redirects_arg.tag = "int" /\ sess.pc \in {"returned", "raised"}) =>
        /\ sess.pc = "returned" =>
              /\ ~is_redirect(sess.result)
              /\ RedirectsSeen <= N
              /\ sess.followed = RedirectsSeen
              /\ RedirectEntries(sess.result.history) = RedirectsSeen
        /\ Raised("TooManyRedirects") =>
              /\ RedirectsSeen = N + 1
              /\ sess.followed = N
              /\ sess.error.response.n = Len(sess.arrivals)
              /\ is_redirect(sess.error.response)
              /\ RedirectEntries(sess.error.response.history) = N
              /\ InfosSeen = 0 => Len(sess.error.response.history) = N
        /\ (RedirectsSeen > N /\ ~Raised("RedirectLoopDetected"))
              => Raised("TooManyRedirects")
        /\ ~is_redirect(Last(sess.arrivals)) => sess.pc = "returned"

\* redirects=2, two redirects followed, the third one raised TooManyRedirects.
C7_Witness ==
    /\ sess.redirects_arg = IntVal(2)
    /\ Raised("TooManyRedirects")
    /\ sess.followed = 2

\* C8: with redirects=True or redirects left unset, TooManyRedirects is
\* never raised.
C8_UnlimitedNeverTooMany ==
    sess.redirects_arg \in {NoneVal, BoolVal(TRUE)} => ~Raised("TooManyRedirects")

\* C9 as stated: with redirects=False a redirect response is returned with an
\* empty history.
C9_ReturnedWithEmptyHistory ==
    (sess.redirects_arg = BoolVal(FALSE) /\ sess.pc = "returned"
        /\ is_redirect(sess.result))
        => sess.result.history = <<>>

\* C9 amended: with redirects=False exactly one request is sent, and a
\* redirect response to it is returned as the final response, its request the
\* original request, its history holding the 1XX responses that preceded it
\* and no redirect entry.
C9_DisabledReturnsRedirect ==
    sess.redirects_arg = BoolVal(FALSE) =>
        /\ Len(sess.sent) <= 1
        /\ ~Raised("TooManyRedirects") /\ ~Raised("RedirectLoopDetected")
        /\ (sess.pc # "got" /\ sess.arrivals # <<>> /\ is_redirect(Last(sess.arrivals))) =>
              /\ sess.pc = "returned"
              /\ sess.result = [Last(sess.arrivals) EXCEPT
                                   !.history = SubSeq(sess.arrivals, 1, Len(sess.arrivals) - 1)]
              /\ sess.result.request = [id |-> 1, url |-> InitialURL]
              /\ RedirectEntries(sess.result.history) = 0
              /\ \A i \in 1..Len(sess.result.history) : sess.result.history[i].kind = "info"
              /\ sess.sent = <<sess.result.request>>

\* redirects=False, a 1XX and then a redirect arrived, the redirect was returned.
C9_Witness ==
    /\ sess.redirects_arg = BoolVal(FALSE) /\ sess.pc = "returned"
    /\ is_redirect(sess.result)
    /\ sess.result.history # <<>>

\* C10: the history of the returned response lists, in order of arrival,
\* every 1XX response and a snapshot (status, headers, request) of every
\* redirect answered before it; each snapshot's request is the request that
\* was sent when that redirect arrived; the returned response is the last
\* arrival and is no element of its history.
C10_HistoryInArrivalOrder ==
    sess.pc = "returned" =>
        LET history == sess.result.history IN
        /\ sess.result.n = Len(sess.arrivals)
        /\ Len(history) = Len(sess.arrivals) - 1
        /\ \A i \in 1..Len(history) :
              LET h == history[i]
                  a == sess.arrivals[i] IN
              /\ h.n = i /\ h.n # sess.result.n
              /\ h.status_code = a.status_code
              /\ h.location = a.location
              /\ h.request = a.request
              /\ a.kind = "info" => h.kind = "info"
              /\ a.kind = "final" =>
                    /\ h.kind = "redirect" /\ is_redirect(a)
                    /\ a.request.id \in 1..Len(sess.sent)
                    /\ sess.sent[a.request.id] = h.request

\* A response returned after a followed redirect, with a 1XX in between.
C10_Witness ==
    /\ sess.pc = "returned" /\ sess.followed >= 1
    /\ InfosSeen >= 1


\* ------------------------------------------------ Session.prepare_redirect
Schemes == {"http", "https"}
NoPort == 0            \* URL.port is None
Ports == {NoPort, 80, 443, 8080}
Methods == {"GET", "POST", "PUT"}
OriginURLs == [scheme : Schemes, host : Hosts, port : Ports]

DEFAULT_PORT_BY_SCHEME(scheme) == IF scheme = "http" THEN 80 ELSE 443

\* URL.origin
origin(url) ==
    Origin(url.scheme, url.host,
           IF url.port = NoPort THEN DEFAULT_PORT_BY_SCHEME(url.scheme) ELSE url.port)

NoHeader == [host |-> NoHost, port |-> NoPort]

\* A 'Host' value that names the port whenever the URL has one.
HostHeader_AlwaysPort(url) == [host |-> url.host, port |-> url.port]

\* The value prepare_request gives 'Host': the host, and the port unless it is
\* absent or the default of the scheme.
HostHeader(url) ==
    [host |-> url.host,
     port |-> IF url.port # NoPort /\ url.port # DEFAULT_PORT_BY_SCHEME(url.scheme)
              THEN url.port ELSE NoPort]

\* prepare_request: 'Host' is set unless the headers carry one.
prepare_request(method, url, headers) ==
    [method |-> method, url |-> url,
     headers |-> IF headers.host = NoHeader
                 THEN [headers EXCEPT !.host = HostHeader(url)]
                 ELSE headers]

RedirectMethod_AnyRedirect(method, status_code) ==
    IF 301 <= status_code /\ status_code <= 308 /\ method = "POST" THEN "GET" ELSE method
\* '301 <= response.status_code <= 303 and request.method == "POST"'
RedirectMethod(method, status_code) ==
    IF 301 <= status_code /\ status_code <= 303 /\ method = "POST" THEN "GET" ELSE method

\* The condition under which prepare_redirect pops 'authorization'.
StripsAuthorization(old, new) ==
    /\ old # new
    /\ ~(/\ old.scheme = "http"
         /\ new.scheme = "https"
         /\ (new.port = old.port \/ (new.port = 443 /\ old.port = 80)))

\* prepare_redirect(request, response), joined being
\* request.url.join(response.headers["location"]).
prepare_redirect(request, status_code, joined) ==
    LET headers == [request.headers EXCEPT !.host = NoHeader, !.cookie = FALSE]
        new_request == prepare_request(request.method, joined, headers)
        strip == StripsAuthorization(origin(request.url), origin(new_request.url)) IN
    [new_request EXCEPT
        !.method = RedirectMethod(request.method, status_code),
        !.headers.authorization = IF strip THEN FALSE ELSE @]

\* A 'Host' header the caller passed to Session.request.
CallerHost == [host |-> "c", port |-> NoPort]

\* A request as prepare_request left it, given the caller's headers, about
\* to be redirected.
RedirectInputs ==
    {[pc |-> "redirect", headers |-> headers,
      request |-> prepare_request(method, url, headers),
      status_code |-> status_code, joined |-> joined]
        : method \in Methods, url \in OriginURLs,
          headers \in [host : {NoHeader, CallerHost}, cookie : BOOLEAN,
                       authorization : BOOLEAN],
          status_code \in REDIRECT_STATUSES, joined \in OriginURLs}

PrepareRedirect ==
    /\ sess.pc = "redirect"
    /\ sess' = [pc |-> "prepared", headers |-> sess.headers, request |-> sess.request,
                status_code |-> sess.status_code, joined |-> sess.joined,
                new_request |-> prepare_redirect(sess.request, sess.status_code, sess.joined)]
    /\ UNCHANGED <<txnVars, poolVars>>

InitRedirect == TxnIdle /\ PoolIdle /\ sess \in RedirectInputs

NextRedirect == PrepareRedirect

SpecRedirect == InitRedirect /\ [][NextRedirect]_vars

\* http to https on the same host, port unchanged or 80 to 443.
SameHostUpgrade(old, new) ==
    /\ old.scheme = "http" /\ new.scheme = "https" /\ new.host = old.host
    /\ (new.port = old.port \/ (old.port = 80 /\ new.port = 443))

\* C11: a redirected request whose origin differs from the previous one
\* carries no Authorization header unless the redirect is an http to https
\* upgrade on the same host; in particular none is carried to another host.
C11_AuthorizationNotForwarded ==
    sess.pc = "prepared" =>
        LET old == origin(sess.request.url)
            new == origin(sess.new_request.url) IN
        /\ (old # new /\ ~SameHostUpgrade(old, new)) => ~sess.new_request.headers.authorization
        /\ old.host # new.host => ~sess.new_request.headers.authorization

\* C12: the redirected request's method is GET when the status is 301, 302
\* or 303 and the previous method was POST, and is the previous method
\* otherwise.
C12_RedirectMethod ==
    sess.pc = "prepared" =>
        IF sess.status_code \in {301, 302, 303} /\ sess.request.method = "POST"
        THEN sess.new_request.method = "GET"
        ELSE sess.new_request.method = sess.request.method

\* A POST redirected with 307 stays a POST.
C12_Witness ==
    /\ sess.pc = "prepared" /\ sess.status_code = 307
    /\ sess.request.method = "POST" /\ sess.new_request.method = "POST"

\* The 'Host' value that belongs to a URL: its host, followed by its port
\* unless the URL has none or it is 80 for http, 443 for https.
HostOf(url) ==
    [host |-> url.host,
     port |-> IF \/ url.port = NoPort
                 \/ (url.scheme = "http" /\ url.port = 80)
                 \/ (url.scheme = "https" /\ url.port = 443)
              THEN NoPort ELSE url.port]

\* C23: the initial request, when the caller passed no Host header, and
\* every redirected request carry the Host value that belongs to their own
\* URL; the redirected request does not keep the Host of the previous hop.
C23_HostFromOwnURL ==
    /\ sess.headers.host = NoHeader => sess.request.headers.host = HostOf(sess.request.url)
    /\ sess.pc = "prepared" =>
          sess.new_request.headers.host = HostOf(sess.new_request.url)

\* A request with a Host header of the caller was redirected to another
\* host on a port that is not the default.
C23_Witness ==
    /\ sess.pc = "prepared" /\ sess.headers.host = CallerHost
    /\ sess.request.headers.host = CallerHost
    /\ sess.new_request.url.port = 8080
    /\ sess.new_request.headers.host = [host |-> sess.joined.host, port |-> 8080]


\* ------------------------------------- Session.request: errors of callees
\* HipError(message, request=None, response=None) as a callee raises it;
\* raised_as keeps the error as it was before the except clauses touched it.
HipError(type, req, rsp) ==
    [type |-> type, request |-> req, response |-> rsp,
     raised_as |-> [request |-> req, response |-> rsp]]

\* 'except HipError as e: e.request = request' of the first try block.
EnrichRequest(e) == [e EXCEPT !.request = sess.request]

Enrich_ReplaceResponse(e, hist) ==
    [e EXCEPT !.request = IF @ = NoRequest THEN sess.request ELSE @,
              !.response = [sess.resp EXCEPT !.history = hist]]
\* The except clause of the second try block: the request is set if the
\* error has none, and so is the response, with response_history as its
\* history.
Enrich(e, hist) ==
    [e EXCEPT !.request = IF @ = NoRequest THEN sess.request ELSE @,
              !.response = IF @ = NoResponse
                           THEN [sess.resp EXCEPT !.history = hist] ELSE @]

\* Errors of the first try block: URL.origin, start_http_transaction
\* (connect, TLS) and send_request (the exchange up to the response head).
ConnectErrors == {"HTTPError", "NameResolutionError", "ConnectTimeout", "TLSError"}
ExchangeErrors == {"ReadTimeout"}

\* The first try block fails: no response came back for this hop.
SessSendFails ==
    /\ sess.pc = "send"
    /\ \E type \in ConnectErrors \cup ExchangeErrors :
         sess' = [sess EXCEPT
                     !.pc = "raised",
                     !.sent = IF type \in ExchangeErrors THEN Append(@, sess.request) ELSE @,
                     !.error = EnrichRequest(HipError(type, NoRequest, NoResponse))]
    /\ UNCHANGED <<txnVars, poolVars>>

\* A callee of the second try block fails: extract_cookies_to_jar (before
\* the history is touched), or, on the way to following a redirect,
\* resp.close() or prepare_redirect (after the snapshot was appended).  The
\* callee may have attached the request and the response it worked on.
SessHandleFails ==
    /\ sess.pc = "got"
    /\ \E point \in {"extract_cookies_to_jar", "close", "prepare_redirect"},
          req \in {NoRequest, sess.request},
          rsp \in {NoResponse, sess.resp} :
         LET resp == sess.resp
             extended == sess.response_history \o resp.history
             history == Append(extended, Snapshot(resp, NoRequest))
             type == IF point = "close" THEN "ReadTimeout" ELSE "HTTPError"
             e == HipError(type, req, rsp)
         IN
         IF point = "extract_cookies_to_jar"
         THEN sess' = [sess EXCEPT !.pc = "raised",
                                   !.error = Enrich(e, sess.response_history)]
         ELSE /\ IsNotFalse(sess.redirects) /\ is_redirect(resp)
              /\ ~BudgetExhausted(sess.redirects)
              /\ sess' = [sess EXCEPT !.pc = "raised",
                                      !.redirects = Decrement(sess.redirects),
                                      !.response_history = history,
                                      !.error = Enrich(e, history)]
    /\ UNCHANGED <<txnVars, poolVars>>

NextSessErr == SessSend \/ SessHandle \/ SessSendFails \/ SessHandleFails

SpecSessErr == InitSess /\ [][NextSessErr]_vars

\* C13: an error leaving the lifecycle loop carries the request of the hop
\* being processed; if a response had been received for that hop it carries
\* a response; and a response the error already carried is still the one it
\* carries.
C13_ErrorsAreEnriched ==
    sess.pc = "raised" =>
        /\ sess.error.request # NoRequest
        /\ sess.error.request = sess.request
        /\ (sess.arrivals # <<>> /\ Last(sess.arrivals).request = sess.request)
              => sess.error.response # NoResponse
        /\ sess.error.type \notin {"TooManyRedirects", "RedirectLoopDetected"} =>
              /\ sess.error.raised_as.response # NoResponse
                    => sess.error.response = sess.error.raised_as.response
              /\ sess.error.raised_as.request # NoRequest
                    => sess.error.request = sess.error.raised_as.request

\* Draining a redirect failed after 1XX responses: the error raised with a
\* response attached keeps it, though the session's copy differs by history.
C13_Witness ==
    /\ sess.pc = "raised" /\ sess.error.type = "ReadTimeout"
    /\ sess.arrivals # <<>> /\ Last(sess.arrivals).request = sess.request
    /\ sess.error.raised_as.response # NoResponse
    /\ sess.error.response # [sess.resp EXCEPT !.history = sess.response_history]


\* ---------------------------------------------------------- Response.stream
NoChunkSize == 0       \* chunk_size=None
NoEncoding == ""       \* Response._encoding is None
NoContentLength == -1  \* no Content-Length header

\* Raw bodies: chunks of 0..MaxRawLen bytes, the bytes numbered in order.
RECURSIVE RawChunks(_, _)
RawChunks(lens, from) ==
    IF lens = <<>> THEN <<>>
    ELSE <<[i \in 1..Head(lens) |-> from + i]>> \o RawChunks(Tail(lens), from + Head(lens))
RawBodies ==
    {RawChunks(lens, 0) :
        lens \in UNION {[1..n -> 0..MaxRawLen] : n \in 0..MaxRawChunks}}

\* BytesChunker.feed: the chunks returned and the buffer kept.
RECURSIVE Cut(_, _, _)
Cut(chunks, byte_buffer, chunk_size) ==
    IF Len(byte_buffer) >= chunk_size
    THEN Cut(Append(chunks, SubSeq(byte_buffer, 1, chunk_size)),
             SubSeq(byte_buffer, chunk_size + 1, Len(byte_buffer)), chunk_size)
    ELSE [chunks |-> chunks, byte_buffer |-> byte_buffer]
BytesChunker_feed(byte_buffer, data, chunk_size) ==
    IF chunk_size = NoChunkSize
    THEN [chunks |-> <<data>>, byte_buffer |-> byte_buffer]
    ELSE Cut(<<>>, byte_buffer \o data, chunk_size)

\* BytesChunker.flush
BytesChunker_flush(byte_buffer, chunk_size) ==
    IF chunk_size = NoChunkSize THEN <<>> ELSE <<byte_buffer>>

\* A getter that does not look at Content-Type.
encoding_NoCharset(r) ==
    IF r.encoding # NoEncoding THEN r.encoding
    ELSE IF r.content_length = 0 THEN "ascii"
    ELSE NoEncoding

\* The getter Response.encoding: a set value, else 'ascii' for
\* Content-Length: 0, else a known charset of Content-Type, else None.
encoding(r) ==
    IF r.encoding # NoEncoding THEN r.encoding
    ELSE IF r.content_length = 0 THEN "ascii"
    ELSE r.charset

\* A Response on which stream(chunk_size) was called: headers, raw body
\* iterator and the arguments.
StreamInputs ==
    {[pc |-> "start",
      content_length |-> IF declared THEN Len(Flatten(body)) ELSE NoContentLength,
      charset |-> charset,
      raw_data |-> body, chunk_size |-> chunk_size,
      encoding |-> NoEncoding, detector |-> FALSE, byte_buffer |-> <<>>,
      received_data |-> 0, consumed |-> <<>>, out |-> <<>>]
        : body \in RawBodies, chunk_size \in {NoChunkSize} \cup 1..MaxChunkSize,
          charset \in {NoEncoding, "utf-8"}, declared \in BOOLEAN}

\* First step of stream_gen: the encoding is looked up and the detector is
\* started if it is unknown.
StreamStart ==
    /\ sess.pc = "start"
    /\ sess' = [sess EXCEPT !.pc = "iterate",
                            !.encoding = encoding(sess),
                            !.detector = (encoding(sess) = NoEncoding)]
    /\ UNCHANGED <<txnVars, poolVars>>

\* One turn of 'async for chunk in decode_raw_data()': the identity decoder
\* passes the raw chunk on, empty chunks are skipped, the detector is fed
\* and may settle on an encoding, the chunker is fed.
StreamChunk ==
    /\ sess.pc = "iterate" /\ sess.raw_data # <<>>
    /\ LET chunk == Head(sess.raw_data)
           fed == BytesChunker_feed(sess.byte_buffer, chunk, sess.chunk_size) IN
       IF chunk = <<>>
       THEN sess' = [sess EXCEPT !.raw_data = Tail(@), !.consumed = Append(@, chunk)]
       ELSE \E detected \in (IF sess.detector THEN {NoEncoding, "latin-1"} ELSE {NoEncoding}) :
              sess' = [sess EXCEPT
                          !.raw_data = Tail(@),
                          !.consumed = Append(@, chunk),
                          !.received_data = @ + Len(chunk),
                          !.encoding = IF detected # NoEncoding THEN detected ELSE @,
                          !.detector = IF detected # NoEncoding THEN FALSE ELSE @,
                          !.byte_buffer = fed.byte_buffer,
                          !.out = @ \o fed.chunks]
    /\ UNCHANGED <<txnVars, poolVars>>

\* The raw iterator is exhausted: the decoder's flush is empty, the chunker
\* is flushed, and an encoding still unknown becomes 'ascii' if no data was
\* received and 'utf-8' otherwise.
StreamEnd ==
    /\ sess.pc = "iterate" /\ sess.raw_data = <<>>
    /\ sess' = [sess EXCEPT
                   !.pc = "done",
                   !.out = @ \o BytesChunker_flush(sess.byte_buffer, sess.chunk_size),
                   !.byte_buffer = <<>>,
                   !.encoding = IF @ # NoEncoding THEN @
                                ELSE IF sess.received_data = 0 THEN "ascii" ELSE "utf-8"]
    /\ UNCHANGED <<txnVars, poolVars>>

InitStream == TxnIdle /\ PoolIdle /\ sess \in StreamInputs

NextStream == StreamStart \/ StreamChunk \/ StreamEnd

SpecStream == InitStream /\ [][NextStream]_vars

\* C20: a drained stream of a response without body bytes has yielded no
\* chunk, whatever the chunk_size, and with no charset declared the
\* encoding is 'ascii'.
C20_EmptyBodyYieldsNothing ==
    (sess.pc = "done" /\ Flatten(sess.consumed) = <<>>) =>
        /\ sess.out = <<>>
        /\ sess.charset = NoEncoding => sess.encoding = "ascii"

\* C21: with a chunk_size set, every chunk of a drained stream of a body
\* that is not empty, but the last, has exactly chunk_size bytes, the last
\* has between one and chunk_size bytes, and the chunks joined are the
\* decoded body.
C21_ChunksOfExactSize ==
    (/\ sess.pc = "done" /\ sess.chunk_size # NoChunkSize
     /\ Flatten(sess.consumed) # <<>>) =>
        /\ \A i \in 1..(Len(sess.out) - 1) : Len(sess.out[i]) = sess.chunk_size
        /\ sess.out # <<>> =>
              /\ Len(sess.out[Len(sess.out)]) >= 1
              /\ Len(sess.out[Len(sess.out)]) <= sess.chunk_size
        /\ Flatten(sess.out) = Flatten(sess.consumed)

Halves(seconds) == 2 * seconds
NoLimit == -2           \* a budget or maximum that is None (counters stay above -2)
Limits(max) == {NoLimit} \cup 0..max

\* The Retry-After header of a response: absent, empty, a number of
\* seconds, or an HTTP-date.
RetryAfterValues ==
    {[kind |-> "absent", n |-> 0], [kind |-> "empty", n |-> 0],
     [kind |-> "date", n |-> 0]}
        \cup {[kind |-> "seconds", n |-> n] : n \in 0..MaxSeconds}
NoRetryResponse == [kind |-> "none", n |-> 0]   \* response=None

RECURSIVE Pow2(_)
Pow2(n) == IF n = 0 THEN 1 ELSE 2 * Pow2(n - 1)
Min(a, b) == IF a <= b THEN a ELSE b
Max(a, b) == IF a >= b THEN a ELSE b

\* Retry.__init__: the fields it stores (read_retries is not one of them).
Retries ==
    [total_retries : Limits(MaxRetries), connect_retries : Limits(MaxRetries),
     response_retries : Limits(MaxRetries), max_retry_after : Limits(MaxSeconds),
     backoff_factor : 0..MaxSeconds, max_backoff : Limits(MaxSeconds),
     backoff_counter : 0..MaxBackoffCounter]

\* Retry._delay_backoff with backoff_jitter = 0.0:
\* min(max_backoff, backoff_factor * 2 ** (_backoff_counter - 1)), and 0
\* if max_backoff <= 0.
delay_backoff(retry) ==
    LET backoff == retry.backoff_factor * Pow2(retry.backoff_counter) IN
    IF retry.max_backoff = NoLimit THEN backoff
    ELSE IF retry.max_backoff <= 0 THEN 0
    ELSE Min(Halves(retry.max_backoff), backoff)

\* Retry._delay_retry_after: float(headers.get("Retry-After", "0") or 0);
\* float() of a date raises ValueError.
delay_retry_after(retry, rsp) ==
    IF rsp.kind = "date" THEN [raised |-> "ValueError", delay |-> 0]
    ELSE [raised |-> "", delay |-> IF rsp.kind = "seconds" THEN Halves(rsp.n) ELSE 0]

\* Retry.delay_before_next_request
delay_before_next_request(retry, rsp) ==
    LET delay == delay_backoff(retry) IN
    IF rsp = NoRetryResponse THEN [raised |-> "", delay |-> delay]
    ELSE LET after == delay_retry_after(retry, rsp) IN
         IF after.raised # "" THEN after
         ELSE [raised |-> "", delay |-> Max(delay, after.delay)]

\* Retry.increment: the body is a docstring; the call changes nothing and
\* raises nothing.
increment(retry, kind) == [raised |-> "", retry |-> retry]

\* A Retry object and the last call made on it with its outcome.
RetryFrame(retry, op, arg, rsp, out) ==
    [retry |-> retry, op |-> op, arg |-> arg, rsp |-> rsp,
     raised |-> out.raised, delay |-> out.delay]

RetryIncrement ==
    \E kind \in {"connect", "read", "response"} :
        LET out == increment(sess.retry, kind) IN
        /\ sess' = RetryFrame(out.retry, "increment", kind, NoRetryResponse,
                              [raised |-> out.raised, delay |-> 0])
        /\ UNCHANGED <<txnVars, poolVars>>

RetryDelay ==
    \E rsp \in RetryAfterValues \cup {NoRetryResponse} :
        /\ sess' = RetryFrame(sess.retry, "delay", "", rsp,
                              delay_before_next_request(sess.retry, rsp))
        /\ UNCHANGED <<txnVars, poolVars>>

\* Retry.reset_backoff_counter
RetryReset ==
    /\ sess' = RetryFrame([sess.retry EXCEPT !.backoff_counter = 0], "reset", "",
                          NoRetryResponse, [raised |-> "", delay |-> 0])
    /\ UNCHANGED <<txnVars, poolVars>>

InitRetry ==
    /\ TxnIdle /\ PoolIdle
    /\ \E retry \in Retries :
          sess = RetryFrame(retry, "init", "", NoRetryResponse, [raised |-> "", delay |-> 0])

NextRetry == RetryIncrement \/ RetryDelay \/ RetryReset

SpecRetry == InitRetry /\ [][NextRetry]_vars

Decremented(before, after) == before # NoLimit => after = before - 1
BelowZero(counter) == counter # NoLimit /\ counter < 0

\* C24: an increment for a connect, read or response failure lowers the
\* total counter and the counter of that category by one, and raises
\* TooManyRetries exactly if one of the counters is then below zero.
C24_IncrementCountsDown ==
    [][sess'.op = "increment" =>
         /\ Decremented(sess.retry.total_retries, sess'.retry.total_retries)
         /\ sess'.arg = "connect" =>
               Decremented(sess.retry.connect_retries, sess'.retry.connect_retries)
         /\ sess'.arg = "response" =>
               Decremented(sess.retry.response_retries, sess'.retry.response_retries)
         /\ (sess'.raised = "TooManyRetries") <=>
               \/ BelowZero(sess'.retry.total_retries)
               \/ BelowZero(sess'.retry.connect_retries)
               \/ BelowZero(sess'.retry.response_retries)]_vars

\* C25: delay_before_next_request returns the larger of the backoff delay,
\* which is at most max_backoff, and the Retry-After delay, which is the
\* header's seconds (0 if absent or not a number) and at most
\* max_retry_after.
C25_DelayIsCappedMax ==
    sess.op = "delay" =>
        LET backoff == delay_backoff(sess.retry)
            seconds == IF sess.rsp.kind = "seconds" THEN sess.rsp.n ELSE 0
            after == IF sess.retry.max_retry_after = NoLimit THEN Halves(seconds)
                     ELSE Halves(Min(seconds, sess.retry.max_retry_after)) IN
        /\ sess.raised = ""
        /\ sess.retry.max_backoff # NoLimit => backoff <= Halves(sess.retry.max_backoff)
        /\ sess.delay = Max(backoff, after)

\* ------------------------------------------------------------------ Cookies
NoPath == "-"     \* a Set-Cookie without Path

\* A Set-Cookie header as http.cookiejar parsed it, the scheme of the request
\* it answers, and the verdicts of the two checks that lie outside hip: the
\* DefaultCookiePolicy of the standard library and psl.
SetCookies ==
    [name : {"__Host-k", "__Secure-k", "k"}, secure : BOOLEAN,
     domain_specified : BOOLEAN, path : {NoPath, "/", "/path"},
     scheme : Schemes, default_ok : BOOLEAN, psl_ok : BOOLEAN]

\* A policy that lets a '__Host-' cookie name a Domain.
set_ok_AnyDomain(cookie) ==
    /\ cookie.default_ok
    /\ ~(cookie.secure /\ cookie.scheme # "https")
    /\ ~(/\ cookie.name = "__Host-k"
         /\ (~cookie.secure \/ cookie.path = NoPath \/ cookie.path # "/"))
    /\ ~(cookie.name = "__Secure-k" /\ ~cookie.secure)
    /\ cookie.psl_ok

\* HipCookiePolicy.set_ok
set_ok(cookie) ==
    /\ cookie.default_ok
    /\ ~(cookie.secure /\ cookie.scheme # "https")
    /\ ~(/\ cookie.name = "__Host-k"
         /\ (\/ ~cookie.secure
             \/ cookie.domain_specified
             \/ cookie.path = NoPath
             \/ cookie.path # "/"))
    /\ ~(cookie.name = "__Secure-k" /\ ~cookie.secure)
    /\ cookie.psl_ok

\* Cookies.extract_cookies_to_jar for a response with one Set-Cookie: the
\* jar, of which the names are kept, stores the cookie if the policy accepts
\* it.
ExtractCookies ==
    \E cookie \in SetCookies :
        /\ sess' = [jar |-> IF set_ok(cookie)
                            THEN sess.jar \cup {cookie.name}
                            ELSE sess.jar,
                    before |-> sess.jar, set_cookie |-> <<cookie>>]
        /\ UNCHANGED <<txnVars, poolVars>>

InitCookies ==
    /\ TxnIdle /\ PoolIdle
    /\ sess = [jar |-> {}, before |-> {}, set_cookie |-> <<>>]

NextCookies == ExtractCookies

SpecCookies == InitCookies /\ [][NextCookies]_vars

HostPrefixOK(cookie) ==
    /\ cookie.scheme = "https" /\ cookie.secure
    /\ ~cookie.domain_specified /\ cookie.path = "/"

\* C26 as stated: a '__Host-' cookie is in the jar after the extraction iff
\* the request was https and the cookie has Secure, no Domain and Path '/';
\* otherwise the jar is as it was.
C26_HostPrefixIff ==
    \A i \in 1..Len(sess.set_cookie) :
        LET cookie == sess.set_cookie[i] IN
        cookie.name = "__Host-k" =>
            IF HostPrefixOK(cookie) THEN cookie.name \in sess.jar
            ELSE sess.jar = sess.before

\* C26 amended: a '__Host-' cookie is in the jar after the extraction iff
\* the request was https, the cookie has Secure, no Domain and Path '/',
\* and the standard cookie policy and the public suffix check accept it;
\* otherwise the jar is as it was.
C26_HostPrefixIffAccepted ==
    \A i \in 1..Len(sess.set_cookie) :
        LET cookie == sess.set_cookie[i] IN
        cookie.name = "__Host-k" =>
            IF HostPrefixOK(cookie) /\ cookie.default_ok /\ cookie.psl_ok
            THEN cookie.name \in sess.jar
            ELSE sess.jar = sess.before

\* A '__Host-' cookie was stored, and a later one with a Domain left the
\* jar alone.
C26_Witness ==
    /\ sess.set_cookie # <<>>
    /\ sess.set_cookie[1].name = "__Host-k" /\ sess.set_cookie[1].domain_specified
    /\ sess.set_cookie[1].secure /\ sess.set_cookie[1].scheme = "https"
    /\ sess.set_cookie[1].path = "/"
    /\ sess.jar = sess.before
    /\ "__Host-k" \in sess.jar

\* ----------------------------------------------------------------- decoders
\* An encoded body is a sequence of tokens.  A token carries the codings
\* wrapped around it, outermost first (the stream formats "gzip", "zlib" and
\* "raw", the latter two both sent as 'deflate'), and is either a byte of the
\* original data or the header of one of the codings.
Formats == {"gzip", "zlib", "raw"}
HeaderName(format) == IF format = "gzip" THEN "gzip" ELSE "deflate"
Plain(n) == [i \in 1..n |-> [layers |-> <<>>, kind |-> "data", b |-> i]]

\* What a sender's compressor makes of a body: a header, except in a raw
\* deflate stream, and the body's tokens wrapped once more.
Encode(format, body) ==
    (IF format = "raw" THEN <<>> ELSE <<[layers |-> <<format>>, kind |-> "hdr", b |-> 0]>>)
        \o [i \in 1..Len(body) |-> [body[i] EXCEPT !.layers = <<format>> \o @]]
RECURSIVE EncodeAll(_, _)
EncodeAll(formats, body) ==
    IF formats = <<>> THEN body
    ELSE EncodeAll(Tail(formats), Encode(Head(formats), body))

\* zlib's decompressobj for one stream format fed data: the tokens unwrapped,
\* a header of its own consumed, zlib.error on anything else.
Inflate(format, data) ==
    LET Unwrapped(t) == [t EXCEPT !.layers = Tail(@)]
        Output(t) == ~(t.kind = "hdr" /\ Len(t.layers) = 1) IN
    IF \E i \in 1..Len(data) : data[i].layers = <<>> \/ Head(data[i].layers) # format
    THEN [err |-> TRUE, out |-> <<>>]
    ELSE [err |-> FALSE,
          out |-> [i \in 1..Len(SelectSeq(data, Output)) |->
                      Unwrapped(SelectSeq(data, Output)[i])]]

\* get_content_decoder for one coding: a GzipDecoder, or a DeflateDecoder in
\* its first try with a zlib decompressobj.
NewDecoder(coding) ==
    IF coding = "gzip" THEN [format |-> "gzip", first_try |-> FALSE, data |-> <<>>]
    ELSE [format |-> "zlib", first_try |-> TRUE, data |-> <<>>]

\* GzipDecoder.decompress and DeflateDecoder.decompress: the decoder
\* afterwards, the output, and whether zlib.error left the call.
decompress(d, data) ==
    IF data = <<>> THEN [d |-> d, err |-> FALSE, out |-> <<>>]
    ELSE IF ~d.first_try
    THEN [d |-> d, err |-> Inflate(d.format, data).err, out |-> Inflate(d.format, data).out]
    ELSE LET try == Inflate("zlib", data)
             again == Inflate("raw", d.data \o data) IN
         IF ~try.err
         THEN [d |-> IF try.out # <<>> THEN [d EXCEPT !.first_try = FALSE, !.data = <<>>]
                     ELSE [d EXCEPT !.data = @ \o data],
               err |-> FALSE, out |-> try.out]
         ELSE [d |-> [format |-> "raw", first_try |-> FALSE, data |-> <<>>],
               err |-> again.err, out |-> again.out]

\* The decoders in the order of the Content-Encoding header.
RECURSIVE HeaderOrder(_)
HeaderOrder(content_encoding) ==
    IF content_encoding = <<>> THEN <<>>
    ELSE <<NewDecoder(Head(content_encoding))>> \o HeaderOrder(Tail(content_encoding))

\* MultiDecoder.__init__: the decoders of the listed codings, reversed.
RECURSIVE MultiDecoder(_)
MultiDecoder(content_encoding) ==
    IF content_encoding = <<>> THEN <<>>
    ELSE MultiDecoder(Tail(content_encoding)) \o <<NewDecoder(Head(content_encoding))>>

\* MultiDecoder.decompress: the data goes through the decoders in turn.
RECURSIVE MultiDecompress(_, _)
MultiDecompress(decompressors, data) ==
    IF decompressors = <<>> THEN [ds |-> <<>>, err |-> FALSE, out |-> data]
    ELSE LET first == decompress(Head(decompressors), data)
             rest == MultiDecompress(Tail(decompressors), first.out) IN
         IF first.err THEN [ds |-> decompressors, err |-> TRUE, out |-> <<>>]
         ELSE [ds |-> <<first.d>> \o rest.ds, err |-> rest.err, out |-> rest.out]

\* A body of MaxData bytes at most, encoded with a list of codings, and the
\* decoder get_content_decoder builds for the header that lists them.
DecoderInputs ==
    {[pc |-> "feed", formats |-> formats, plain |-> Plain(n),
      raw_data |-> EncodeAll(formats, Plain(n)),
      decompressors |-> MultiDecoder([i \in 1..Len(formats) |-> HeaderName(formats[i])]),
      out |-> <<>>, err |-> FALSE]
        : formats \in UNION {[1..k -> Formats] : k \in 1..MaxCodings}, n \in 0..MaxData}

\* decoder.decompress(chunk) for the next chunk of the raw body.
DecoderFeed ==
    \E n \in 1..Len(sess.raw_data) :
        LET fed == MultiDecompress(sess.decompressors, SubSeq(sess.raw_data, 1, n)) IN
        /\ sess.pc = "feed"
        /\ sess' = [sess EXCEPT
                       !.raw_data = SubSeq(@, n + 1, Len(@)),
                       !.decompressors = fed.ds,
                       !.out = @ \o fed.out,
                       !.err = fed.err,
                       !.pc = IF fed.err THEN "raised" ELSE "feed"]
        /\ UNCHANGED <<txnVars, poolVars>>

\* decoder.flush() at the end of the body: the flush of the last decoder,
\* which holds nothing back once decompress has returned.
DecoderFlush ==
    /\ sess.pc = "feed" /\ sess.raw_data = <<>>
    /\ sess' = [sess EXCEPT !.pc = "flushed"]
    /\ UNCHANGED <<txnVars, poolVars>>

InitDecoder == TxnIdle /\ PoolIdle /\ sess \in DecoderInputs

NextDecoder == DecoderFeed \/ DecoderFlush

SpecDecoder == InitDecoder /\ [][NextDecoder]_vars

\* C28: a body encoded with the codings of the header, the first listed
\* applied first, is decoded without error, and when all chunks are fed and
\* the chain is flushed the output is the original data.
C28_ReverseOrderRoundTrip ==
    /\ ~sess.err
    /\ sess.pc = "flushed" => sess.out = sess.plain

\* A body that was gzipped and then deflated as a raw stream, sent with
\* 'gzip, deflate', was fed, flushed and decoded.
C28_Witness ==
    /\ sess.pc = "flushed" /\ sess.formats = <<"gzip", "raw">>
    /\ Len(sess.plain) = MaxData /\ sess.out = sess.plain

\* ------------------------------------------------------------------ Headers
\* Header names in several casings, and what str.lower and str.upper make
\* of them.
Names == {"x-a", "X-a", "X-A", "b", "B"}
Lower(name) == IF name \in {"x-a", "X-a", "X-A"} THEN "x-a" ELSE "b"
Upper(name) == IF name \in {"x-a", "X-a", "X-A"} THEN "X-A" ELSE "B"
HeaderValues == {"v", "w"}

\* A lookup that takes the key as it is given.
get_all_AsGiven(internal, key) ==
    IF key \in DOMAIN internal THEN internal[key] ELSE <<>>

\* Headers._normalize_key
normalize_key(key) == Lower(key)

\* MultiMapping.get_all: the values under the normalized key, [] on KeyError.
\* _internal is the dict from normalized keys to lists; of its (key, value)
\* pairs the values are kept.
get_all(internal, key) ==
    IF normalize_key(key) \in DOMAIN internal THEN internal[normalize_key(key)] ELSE <<>>

\* MultiMapping.__contains__: bool(self._internal.get(key, None))
contains(internal, item) ==
    normalize_key(item) \in DOMAIN internal /\ internal[normalize_key(item)] # <<>>

\* dict assignment and dict.pop
Put(internal, key, items) ==
    [k \in DOMAIN internal \cup {key} |-> IF k = key THEN items ELSE internal[k]]
Without(internal, key) == [k \in DOMAIN internal \ {key} |-> internal[k]]

\* MultiMapping.add
add(internal, name, value) ==
    LET key == normalize_key(name) IN
    Put(internal, key,
        Append(IF key \in DOMAIN internal THEN internal[key] ELSE <<>>, value))

\* MultiMapping.setdefault: dict.setdefault(key, [(key, value)]) keeps the
\* list a key already has, an empty one too.
setdefault(internal, name, value) ==
    IF normalize_key(name) \in DOMAIN internal THEN internal
    ELSE Put(internal, normalize_key(name), <<value>>)

\* The default get_one returns on KeyError and IndexError.
NoValue == "None"
\* MultiMapping.get_one
get_one(internal, name) ==
    IF normalize_key(name) \in DOMAIN internal /\ internal[normalize_key(name)] # <<>>
    THEN internal[normalize_key(name)][1]
    ELSE NoValue

\* One operation on a Headers object.
HeadersOp ==
    \E name \in Names, value \in HeaderValues :
        LET internal == sess.internal
            key == normalize_key(name)
            room == Len(get_all(internal, name)) < MaxValues IN
        /\ \/ \* add
              /\ room
              /\ sess' = [sess EXCEPT !.internal = add(internal, name, value)]
           \/ \* extend with two items
              \E name2 \in Names :
                 /\ room /\ Len(get_all(add(internal, name, value), name2)) < MaxValues
                 /\ sess' = [sess EXCEPT
                                !.internal = add(add(internal, name, value), name2, value)]
           \/ \* setdefault: dict.setdefault(key, [(key, value)])
              /\ sess' = [sess EXCEPT !.internal = setdefault(internal, name, value)]
           \/ \* __setitem__
              /\ sess' = [sess EXCEPT !.internal = Put(internal, key, <<value>>)]
           \/ \* pop_one: items.pop(0), the default on KeyError and IndexError
              /\ sess' = [sess EXCEPT
                             !.internal = IF key \in DOMAIN internal /\ internal[key] # <<>>
                                          THEN Put(internal, key, Tail(internal[key]))
                                          ELSE internal]
           \/ \* pop_all
              /\ sess' = [sess EXCEPT !.internal = Without(internal, key)]
           \/ \* __delitem__
              /\ sess' = [sess EXCEPT !.internal = Without(internal, key)]
        /\ UNCHANGED <<txnVars, poolVars>>

\* Headers(): an empty mapping
InitHeaders == TxnIdle /\ PoolIdle /\ sess = [internal |-> <<>>]

NextHeaders == HeadersOp

SpecHeaders == InitHeaders /\ [][NextHeaders]_vars

\* C27: after any sequence of operations get_all gives the same list for a
\* name as given, lower-cased and upper-cased, and so does the membership
\* test.
C27_CaseInsensitive ==
    \A name \in Names :
        /\ get_all(sess.internal, name) = get_all(sess.internal, Lower(name))
        /\ get_all(sess.internal, name) = get_all(sess.internal, Upper(name))
        /\ contains(sess.internal, name) <=> contains(sess.internal, Lower(name))
        /\ contains(sess.internal, name) <=> contains(sess.internal, Upper(name))

\* Values were added under differently cased names and one was popped: the
\* upper-cased name finds the rest, and an emptied name is not contained.
C27_Witness ==
    /\ get_all(sess.internal, "X-A") = <<"w", "v">>
    /\ "b" \in DOMAIN sess.internal /\ ~contains(sess.internal, "B")

\* -------------------------------------------------------- pump properties
\* The step delivers the socket read 'incoming' to consume: in the blocking
\* pump recv returned (no EWOULDBLOCK), in the trio pump receive_some
\* returned bytes of at least one event.
Delivers(incoming) ==
    /\ phase \in PumpPhases /\ srv_todo # <<>>
    /\ srv_todo' = SubSeq(srv_todo, Len(incoming) + 1, Len(srv_todo))
    /\ rx_seen' = rx_seen \o incoming
    /\ IF backend = "sync" THEN pump.pc = "recv" /\ ~pump'.want_read
       ELSE trio.receiver = "recv" /\ incoming # <<>>

\* C29: when consume signals Abort the pump returns to its caller at once
\* and without an exception, and writes nothing in that step; the locals of
\* the pump, unsent bytes included, are gone.  Both backends.
C29_AbortReturnsNormally ==
    [][\A incoming \in Reads :
         (Delivers(incoming) /\ ConsumeBytes(incoming).outcome = "abort") =>
            /\ err' = "" /\ phase' # "error"
            /\ phase' = IF phase = "send_request" THEN "returned"
                        ELSE IF response_ended' THEN "gen_finish" ELSE "gen_loop"
            /\ wire' = wire
            /\ pump' \in {PumpIdle, PumpEntry} /\ trio' \in {TrioIdle, TrioEntry}]_vars

\* The trio pump returned on the response while a chunk of the upload had
\* been produced and not written in full.
C29_Witness ==
    /\ backend = "trio" /\ phase = "returned" /\ err = ""
    /\ pulled # <<>> /\ Len(wire) < ChunkLen * Len(pulled)

\* The ghost of the pump call that is running.
Gate == IF backend = "sync" THEN pump.gate ELSE trio.gate

\* C30: after produce raised BlockedUntilNextRead the pump calls produce no
\* second time and writes nothing until a socket read has been delivered to
\* consume; after the delivery it calls produce again, unless the pump
\* call has ended by then.
C30_BlockedUntilNextRead ==
    /\ [](Gate # "again")
    /\ [][Gate = "blocked" => wire' = wire]_vars
    /\ (Gate = "delivered") ~> (Gate # "delivered")

\* The trio sender was blocked, a 100 (Continue) was delivered, and produce,
\* called again, gave the first chunk.
C30_Witness ==
    /\ backend = "trio" /\ phase = "send_request" /\ req_expect
    /\ Received(Info(100)) /\ Gate = "open" /\ trio.sender = "send" /\ pulled # <<>>

\* The blocking pump is running and stays in the same call over the step.
SyncTurn == backend = "sync" /\ phase \in PumpPhases /\ phase' = phase /\ pump'.pc # "idle"

\* The step is the receive of a turn: recv failed with EWOULDBLOCK, or its
\* bytes went through consume before the step ended.
ReceiveAttempted ==
    /\ pump.pc = "recv"
    /\ \/ pump'.want_read /\ UNCHANGED <<parserVars, srv_todo, rx_seen>>
       \/ \E incoming \in Reads :
            /\ srv_todo' = SubSeq(srv_todo, Len(incoming) + 1, Len(srv_todo))
            /\ rx_seen' = rx_seen \o incoming
            /\ h11_buf' = ConsumeBytes(incoming).h11_buf
            /\ parsed' = ConsumeBytes(incoming).parsed
            /\ response_history' = ConsumeBytes(incoming).response_history

\* C31: in every turn of the blocking pump the send is reached only from the
\* receive of the same turn, in which recv was attempted and the bytes it
\* returned were handed to consume; bytes are written only in the send.
C31_RecvBeforeSend ==
    /\ [][(SyncTurn /\ pump'.pc = "send") => ReceiveAttempted]_vars
    /\ [][(backend = "sync" /\ phase \in PumpPhases /\ wire' # wire) => pump.pc = "send"]_vars
    /\ [][(SyncTurn /\ pump.pc = "recv") => wire' = wire]_vars

\* A turn in which recv returned a 1XX response, consume took it, and the
\* send of unsent body bytes comes next.
C31_Witness ==
    /\ backend = "sync" /\ phase = "send_request" /\ pump.pc = "send"
    /\ pump.made_progress /\ pump.outgoing # <<>> /\ rx_seen # <<>>

\* C32: a pump call that is running can always take a step: when no byte
\* arrives for read_timeout and nothing can be sent, the step is the one
\* that ends the call, also while produce is suspended on BlockedUntilNextRead.
C32_TimeoutEndsPump == phase \in PumpPhases => ENABLED Next

\* C33: send_request has returned only if a final Response was constructed;
\* a pump that ends without one makes send_request raise.
C33_ReturnsAResponse == phase = "returned" => response

\* C34: once a final response has been read while the 100-continue gate was
\* still set, no byte of a request-body Data chunk is on the socket, whatever
\* the caller does with the response afterwards (the terminating chunk of
\* the request is no Data).
C34_EarlyResponseStopsUpload ==
    (req_expect /\ expect_100 /\ response) => \A i \in 1..Len(wire) : wire[i].c = 0

\* produce has returned None to the running pump: it will send nothing more.
SenderFinished == IF backend = "sync" THEN pump.outgoing_finished ELSE trio.sender = "done"

\* C35: when send_request has nothing more to send and has read nothing of a
\* response yet, the socket holds the complete request, end-of-message
\* marker included, so that a server answering only a complete request does
\* answer and send_request returns its Response.
C35_EndOfRequestNotWithheld ==
    (phase = "send_request" /\ rx_seen = <<>> /\ SenderFinished) =>
        /\ request_data = <<>>
        /\ wire = BytesOf(pulled) \o EOMBytes

\* C36: Session.request ends, with a response or with TooManyRedirects or
\* RedirectLoopDetected, whatever the budget: every redirect followed goes
\* to a URL that was not in visited_urls and adds it, so that no more
\* requests are sent than there are URLs.
C36_RequestTerminates ==
    /\ <>(sess.pc \in {"returned", "raised"})
    /\ [](sess.pc = "raised" =>
             sess.error.type \in {"TooManyRedirects", "RedirectLoopDetected"})
    /\ [][(sess.pc = "got" /\ sess'.pc = "send") =>
             /\ sess'.request.url \notin sess.visited_urls
             /\ sess'.visited_urls = sess.visited_urls \cup {sess'.request.url}]_vars
    /\ [](Len(sess.sent) <= Cardinality(URLs))

\* Without a limit, every URL was requested once and the last answer, one
\* more redirect, ended the call.
C36_Witness ==
    /\ sess.redirects_arg = NoneVal /\ sess.pc = "raised"
    /\ Len(sess.sent) = Cardinality(URLs)


\* --------------------------------------- cookies across one lifecycle
CookieNames == {"s", "t"}
\* The 'cookie' entry of the request headers: absent, or the cookie names.
NoCookieHeader == [present |-> FALSE, names |-> {}]
CookieHeader(names) == [present |-> TRUE, names |-> names]
\* The header the caller passed with the first request.
CallerCookie == CookieHeader({"c"})

\* Cookies.get_cookie_header: CookieJar.add_cookie_header puts the cookies
\* of the jar that match the request's host into a new header, unless there
\* are none or the request has a Cookie header already.
get_cookie_header(jar, req) ==
    LET names == {c.name : c \in {c \in jar : c.domain = req.url.host}} IN
    IF req.cookie.present \/ names = {} THEN NoCookieHeader ELSE CookieHeader(names)

\* A prepare_redirect that copies the headers as they are.
RedirectCookie_Copied(cookie) == cookie
\* prepare_redirect: headers.pop_all("cookie") on the copy of the headers.
RedirectCookie(cookie) == NoCookieHeader

\* Top of 'while True': the Cookie header from the jar, set with setdefault
\* if there is one.
HopCookieHeader ==
    /\ sess.pc = "top"
    /\ LET cookie_header == get_cookie_header(sess.jar, sess.request) IN
       sess' = [sess EXCEPT
                  !.pc = "send",
                  !.request.cookie = IF cookie_header.present /\ ~@.present
                                     THEN cookie_header ELSE @]
    /\ UNCHANGED <<txnVars, poolVars>>

\* send_request: the peer answers with Set-Cookie headers, some of which
\* the policy of the jar will accept, and with or without a Location.
HopSend ==
    /\ sess.pc = "send"
    /\ \E accepted \in SUBSET CookieNames, location \in Locations \cup {NoLocation} :
         sess' = [sess EXCEPT
                    !.pc = "got",
                    !.resp = [request |-> sess.request, accepted |-> accepted,
                              location |-> location],
                    !.arrived = @ \cup {[name |-> n, domain |-> sess.request.url.host] :
                                           n \in accepted}]
    /\ UNCHANGED <<txnVars, poolVars>>

\* The second try block: extract_cookies_to_jar(resp), then either the
\* redirect is followed with the request of prepare_redirect, or the
\* response is returned.
HopHandle ==
    /\ sess.pc = "got"
    /\ LET jar == sess.jar \cup {[name |-> n, domain |-> sess.resp.request.url.host] :
                                    n \in sess.resp.accepted}
       IN
       IF sess.resp.location # NoLocation /\ sess.redirects > 0
       THEN sess' = [sess EXCEPT
                       !.pc = "top",
                       !.jar = jar,
                       !.redirects = @ - 1,
                       !.hop = @ + 1,
                       !.request = [url |-> join(sess.request.url, sess.resp.location),
                                    cookie |-> RedirectCookie(sess.request.cookie)]]
       ELSE sess' = [sess EXCEPT !.pc = "returned", !.jar = jar]
    /\ UNCHANGED <<txnVars, poolVars>>

\* Session.request at the top of its loop, with the jar of the session and
\* the headers of the caller.
InitHops ==
    /\ TxnIdle /\ PoolIdle
    /\ \E jar \in SUBSET [name : {"t"}, domain : Hosts], cookie \in {NoCookieHeader, CallerCookie} :
         sess = [pc |-> "top", jar |-> jar, arrived |-> jar, hop |-> 1,
                 redirects |-> MaxRedirects,
                 request |-> [url |-> InitialURL, cookie |-> cookie],
                 resp |-> [request |-> [url |-> InitialURL, cookie |-> cookie],
                           accepted |-> {}, location |-> NoLocation]]

NextHops == HopCookieHeader \/ HopSend \/ HopHandle

SpecHops == InitHops /\ [][NextHops]_vars

\* The names of the cookies among cs that belong to the host.
NamesFor(cs, host) == {c.name : c \in {c \in cs : c.domain = host}}

\* C37: when a hop's Cookie header has been computed, the jar holds the
\* accepted cookies of every response received so far in the lifecycle, and
\* the header of a redirected request is the one the jar gives for the new
\* URL (none if the jar has no cookie for it), whatever header the previous
\* request carried.
C37_CookiesPerHop ==
    sess.pc = "send" =>
        /\ sess.jar = sess.arrived
        /\ sess.hop > 1 =>
              sess.request.cookie =
                 IF NamesFor(sess.arrived, sess.request.url.host) = {}
                 THEN NoCookieHeader
                 ELSE CookieHeader(NamesFor(sess.arrived, sess.request.url.host))

\* The caller passed a Cookie header; the first response set a cookie and
\* redirected to the same host; the second request carries that cookie.
C37_Witness ==
    /\ sess.pc = "send" /\ sess.hop = 2
    /\ sess.resp.request.cookie = CallerCookie
    /\ sess.request.cookie = CookieHeader({"s"})


\* -------------------------------------------------------- GzipDecoder
\* A gzip input as tokens: "H" the header of a member, "a" and "b" bytes of
\* its deflate stream that decode to themselves, "E" its trailer, "X" a
\* byte that fits nowhere.
GzipBytes == {"a", "b"}
GzipTokens == {"H", "E", "X"} \cup GzipBytes
RECURSIVE TokenSeqs(_)
TokenSeqs(n) ==
    IF n = 0 THEN {<<>>}
    ELSE TokenSeqs(n - 1) \cup {Append(q, t) : q \in TokenSeqs(n - 1), t \in GzipTokens}

\* zlib.decompressobj(16 + MAX_WBITS).decompress(data): the object is at
\* the start of a member, inside it, or past its end ("eof"), where all
\* input goes to unused_data; input that fits nowhere raises zlib.error.
RECURSIVE zlib_decompress(_, _, _)
zlib_decompress(z, data, out) ==
    IF data = <<>> \/ z = "eof"
    THEN [z |-> z, out |-> out, unused_data |-> data, error |-> FALSE]
    ELSE IF z = "start" /\ Head(data) = "H"
    THEN zlib_decompress("in", Tail(data), out)
    ELSE IF z = "in" /\ Head(data) \in GzipBytes
    THEN zlib_decompress("in", Tail(data), Append(out, Head(data)))
    ELSE IF z = "in" /\ Head(data) = "E"
    THEN zlib_decompress("eof", Tail(data), out)
    ELSE [z |-> z, out |-> <<>>, unused_data |-> <<>>, error |-> TRUE]

\* GzipDecoder.__init__
NewGzipDecoder == [obj |-> "start", state |-> "FIRST_MEMBER"]

\* An except clause that raises in every state.
GzipError_AlwaysRaise(d, ret) ==
    [d |-> [d EXCEPT !.state = "SWALLOW_DATA"], out |-> <<>>, raised |-> TRUE]
\* 'except zlib.error': swallow from now on; return what this call has
\* decoded if the error came in OTHER_MEMBERS, raise otherwise.
GzipError(d, ret) ==
    IF d.state = "OTHER_MEMBERS"
    THEN [d |-> [d EXCEPT !.state = "SWALLOW_DATA"], out |-> ret, raised |-> FALSE]
    ELSE [d |-> [d EXCEPT !.state = "SWALLOW_DATA"], out |-> <<>>, raised |-> TRUE]

\* The 'while True' of GzipDecoder.decompress.
RECURSIVE GzipLoop(_, _, _)
GzipLoop(d, data, ret) ==
    LET r == zlib_decompress(d.obj, data, <<>>) IN
    IF r.error THEN GzipError(d, ret)
    ELSE IF r.unused_data = <<>>
    THEN [d |-> [d EXCEPT !.obj = r.z], out |-> ret \o r.out, raised |-> FALSE]
    ELSE GzipLoop([obj |-> "start", state |-> "OTHER_MEMBERS"], r.unused_data,
                  ret \o r.out)

\* GzipDecoder.decompress
GzipDecompress(d, data) ==
    IF d.state = "SWALLOW_DATA" \/ data = <<>>
    THEN [d |-> d, out |-> <<>>, raised |-> FALSE]
    ELSE GzipLoop(d, data, <<>>)

\* One call of decompress with the next piece of the input; the caller may
\* go on after an error.
GzipFeed ==
    /\ sess.rest # <<>>
    /\ \E k \in 1..Len(sess.rest) :
         LET data == SubSeq(sess.rest, 1, k)
             r == GzipDecompress(sess.d, data)
         IN sess' = [rest |-> SubSeq(sess.rest, k + 1, Len(sess.rest)),
                     before |-> sess.fed,
                     fed |-> sess.fed \o data,
                     d |-> r.d,
                     last |-> [out |-> r.out, raised |-> r.raised],
                     calls |-> sess.calls + 1]
    /\ UNCHANGED <<txnVars, poolVars>>

InitGzip ==
    /\ TxnIdle /\ PoolIdle
    /\ \E input \in TokenSeqs(MaxTokens) :
         sess = [rest |-> input, before |-> <<>>, fed |-> <<>>, d |-> NewGzipDecoder,
                 last |-> [out |-> <<>>, raised |-> FALSE], calls |-> 0]

NextGzip == GzipFeed

SpecGzip == InitGzip /\ [][NextGzip]_vars

\* The position of the first token of seq, from position i on, that the
\* gzip format does not allow there (0 if there is none); inside tells
\* whether position i lies within a member.
RECURSIVE FirstBad(_, _, _)
FirstBad(seq, i, inside) ==
    IF i > Len(seq) THEN 0
    ELSE IF ~inside THEN IF seq[i] = "H" THEN FirstBad(seq, i + 1, TRUE) ELSE i
    ELSE IF seq[i] \in GzipBytes THEN FirstBad(seq, i + 1, TRUE)
    ELSE IF seq[i] = "E" THEN FirstBad(seq, i + 1, FALSE)
    ELSE i

\* The position of the last trailer among the first n tokens (0 if none).
LastEnd(seq, n) ==
    LET ends == {i \in 1..n : seq[i] = "E"} IN
    IF ends = {} THEN 0 ELSE CHOOSE i \in ends : \A j \in ends : j <= i

IsGzipByte(t) == t \in GzipBytes
\* What the tokens at positions from..to decode to.
Decoded(seq, from, to) == SelectSeq(SubSeq(seq, from, to), IsGzipByte)

\* C38: the call that meets the first decoding error raises it if no member
\* has been completed before the error, and otherwise returns what it
\* decoded up to the end of the last complete member; a call without error
\* returns what its input decodes to; every call after the first error
\* returns empty output and raises nothing.
C38_GzipErrors ==
    LET bad == FirstBad(sess.fed, 1, FALSE)
        bad_before == FirstBad(sess.before, 1, FALSE)
        start == Len(sess.before) + 1
    IN sess.calls > 0 =>
        IF bad_before # 0
        THEN ~sess.last.raised /\ sess.last.out = <<>> /\ sess.d.state = "SWALLOW_DATA"
        ELSE IF bad = 0
        THEN ~sess.last.raised /\ sess.last.out = Decoded(sess.fed, start, Len(sess.fed))
        ELSE IF LastEnd(sess.fed, bad - 1) = 0
        THEN sess.last.raised /\ sess.d.state = "SWALLOW_DATA"
        ELSE /\ ~sess.last.raised /\ sess.d.state = "SWALLOW_DATA"
             /\ sess.last.out = Decoded(sess.fed, start, LastEnd(sess.fed, bad - 1))

\* The call that completed the first member met garbage behind it: the error
\* was swallowed and the byte of the member returned.
C38_Witness ==
    /\ sess.calls = 2 /\ sess.before = <<"H">> /\ sess.fed = <<"H", "a", "E", "X">>
    /\ ~sess.last.raised /\ sess.last.out = <<"a">> /\ sess.d.state = "SWALLOW_DATA"


\* -------------------------------------------------------- TextChunker
\* Encoded text as bytes: "a" is a character of one byte, "L" followed by
\* "T" a character of two bytes, which decodes to "U".
RECURSIVE ValidStreams(_)
ValidStreams(n) ==
    IF n = 0 THEN {<<>>}
    ELSE ValidStreams(n - 1)
            \cup {Append(q, "a") : q \in ValidStreams(n - 1)}
            \cup (IF n < 2 THEN {} ELSE {q \o <<"L", "T">> : q \in ValidStreams(n - 2)})

\* bytes.decode(encoding): the text, or UnicodeDecodeError for a character
\* cut short or a byte out of place.
RECURSIVE TextDecode(_, _)
TextDecode(bytes, text) ==
    IF bytes = <<>> THEN [ok |-> TRUE, text |-> text]
    ELSE IF Head(bytes) = "a" THEN TextDecode(Tail(bytes), Append(text, "a"))
    ELSE IF Head(bytes) = "L" /\ Len(bytes) >= 2 /\ bytes[2] = "T"
    THEN TextDecode(Tail(Tail(bytes)), Append(text, "U"))
    ELSE [ok |-> FALSE, text |-> <<>>]

\* TextChunker._decode_byte_buffer: every i of range(buffer_len + 8,
\* buffer_len, -1) is past the end of the buffer, so each try decodes the
\* whole buffer; a failure is returned as an error once the buffer holds 8
\* bytes, and leaves the bytes buffered before.
decode_byte_buffer(byte_buffer) ==
    LET r == TextDecode(byte_buffer, <<>>) IN
    IF r.ok THEN [kind |-> "str", text |-> r.text, byte_buffer |-> <<>>]
    ELSE IF Len(byte_buffer) >= 8
    THEN [kind |-> "UnicodeDecodeError", text |-> <<>>, byte_buffer |-> byte_buffer]
    ELSE [kind |-> "None", text |-> <<>>, byte_buffer |-> byte_buffer]

\* The 'while len(self.string_buffer) >= self.chunk_size' of feed.
RECURSIVE CutText(_, _, _)
CutText(string_buffer, chunk_size, chunks) ==
    IF Len(string_buffer) >= chunk_size
    THEN CutText(SubSeq(string_buffer, chunk_size + 1, Len(string_buffer)), chunk_size,
                 Append(chunks, SubSeq(string_buffer, 1, chunk_size)))
    ELSE [chunks |-> chunks, string_buffer |-> string_buffer]

\* TextChunker.feed: comparing a length with chunk_size None is a TypeError.
TextChunker_feed(c, data) ==
    LET d == decode_byte_buffer(c.byte_buffer \o data)
        string_buffer == c.string_buffer \o d.text
    IN
    IF d.kind = "UnicodeDecodeError"
    THEN [raised |-> "UnicodeDecodeError", chunks |-> <<>>,
          c |-> [c EXCEPT !.byte_buffer = d.byte_buffer]]
    ELSE IF c.chunk_size = NoChunkSize
    THEN [raised |-> "TypeError", chunks |-> <<>>,
          c |-> [c EXCEPT !.byte_buffer = d.byte_buffer, !.string_buffer = string_buffer]]
    ELSE LET cut == CutText(string_buffer, c.chunk_size, <<>>) IN
         [raised |-> "", chunks |-> cut.chunks,
          c |-> [c EXCEPT !.byte_buffer = d.byte_buffer,
                          !.string_buffer = cut.string_buffer]]

\* TextChunker.flush
TextChunker_flush(c) ==
    IF c.chunk_size = NoChunkSize THEN [raised |-> "", chunks |-> <<>>]
    ELSE IF Len(c.byte_buffer) > 0 THEN [raised |-> "TypeError", chunks |-> <<>>]
    ELSE [raised |-> "",
          chunks |-> IF c.string_buffer # <<>> THEN <<c.string_buffer>> ELSE <<>>]

\* stream_text: the next piece of the body goes to chunker.feed.
TextFeed ==
    /\ sess.pc = "feed" /\ sess.rest # <<>>
    /\ \E k \in 1..Len(sess.rest) :
         LET r == TextChunker_feed(sess.c, SubSeq(sess.rest, 1, k)) IN
         sess' = [sess EXCEPT
                    !.pc = IF r.raised # "" THEN "raised" ELSE "feed",
                    !.raised = r.raised,
                    !.rest = SubSeq(sess.rest, k + 1, Len(sess.rest)),
                    !.c = r.c,
                    !.emitted = @ \o r.chunks]
    /\ UNCHANGED <<txnVars, poolVars>>

\* stream_text: the body has ended, chunker.flush.
TextFlush ==
    /\ sess.pc = "feed" /\ sess.rest = <<>>
    /\ LET r == TextChunker_flush(sess.c) IN
       sess' = [sess EXCEPT
                  !.pc = IF r.raised # "" THEN "raised" ELSE "done",
                  !.raised = r.raised,
                  !.emitted = @ \o r.chunks]
    /\ UNCHANGED <<txnVars, poolVars>>

InitText ==
    /\ TxnIdle /\ PoolIdle
    /\ \E stream \in ValidStreams(MaxStream), chunk_size \in {NoChunkSize} \cup 1..MaxChunkSize :
         sess = [pc |-> "feed", stream |-> stream, rest |-> stream, raised |-> "",
                 c |-> [chunk_size |-> chunk_size, byte_buffer |-> <<>>,
                        string_buffer |-> <<>>],
                 emitted |-> <<>>]

NextText == TextFeed \/ TextFlush

SpecText == InitText /\ [][NextText]_vars

\* C39: a validly encoded stream, fed in pieces cut anywhere, raises no
\* error, and once flushed the text emitted is, put together, the decoding
\* of the whole stream.
C39_TextRoundTrip ==
    /\ sess.raised = ""
    /\ sess.pc = "done" => Flatten(sess.emitted) = TextDecode(sess.stream, <<>>).text


\* C40: whatever operations came before, after setdefault(k, v) the mapping
\* contains k and get_one(k) returns a value stored under k.
C40_SetdefaultStores ==
    \A name \in Names, value \in HeaderValues :
        LET after == setdefault(sess.internal, name, value) IN
        /\ contains(after, name)
        /\ get_one(after, name) # NoValue
        /\ get_one(after, name) \in {get_all(after, name)[i] : i \in 1..Len(get_all(after, name))}

====
